---- MODULE Spec2Model ----
(***************************************************************************)
(* Model of the CCTV-to-S3 pipeline: the segment store (state/database.py, *)
(* state/models.py), the ingest watcher and the retention loop             *)
(* (storage/local_buffer.py), the upload worker (storage/s3_uploader.py)   *)
(* and the capture supervisor (capture/segmenter.py).                      *)
(*                                                                         *)
(* Conventions.  A filename is modelled by a number (segment files carry a *)
(* timestamp in their name, so the numeric order is the sorted order); the *)
(* file path is a function of the filename and is not kept.  Pipeline time *)
(* is counted in minutes, supervisor time in seconds, file sizes in MB.    *)
(* The capture process is a writer of chunk files; what ffmpeg itself      *)
(* removes from the directory (-hls_flags delete_segments) is not modelled *)
(* and a file, once written, is changed by the pipeline's own code only.   *)
(***************************************************************************)
EXTENDS Integers, Sequences, FiniteSets, TLC

\* ------------------------------------------------------------------ bounds
MaxFiles == 2          \* filenames the capture process / a caller may use
MaxTime == 2           \* minutes the pipeline clock runs
MaxLiveTime == 3       \* minutes the clock of the fault-free pipeline runs
MaxIds == 2            \* ids a store-interface caller has assigned
PastMinutes == 1       \* age of the oldest segment a store-interface caller adds
MaxAttempts == 1       \* upload_attempts a store-interface caller counts up to
MaxRetries == 2        \* largest configured s3.max_retries
MaxCrashes == 1        \* process restarts in one run
MaxRestarts == 2       \* largest configured health.max_restarts
MaxEvents == 3         \* created events delivered after the directory listing
MaxBudget == 6         \* largest s3.max_retries of a run of the retry loop alone
MaxStarts == 4         \* calls of Segmenter.start in one run
MaxChecks == 2         \* health checks in one run
MaxClock == 40         \* last second of the supervisor clock
StartMinute == 59      \* minute of the hour at which the pipeline clock starts

\* ------------------------------------------------------- values and types
NoneInt == -1          \* Python None in an integer/datetime field
NoneStr == "None"      \* Python None in a text field
NoKey == <<>>          \* Python None in s3_key

CREATED == "created"
UPLOADING == "uploading"
UPLOADED == "uploaded"
FAILED == "failed"
CLEANED == "cleaned"
SegmentState == {CREATED, UPLOADING, UPLOADED, FAILED, CLEANED}

Filenames == 1..MaxFiles
StoreFilenames == {1, 2}   \* the filenames a caller of the store interface uses
Bucket == "bucket"

\* Segment(filename=..., filepath=...) with the dataclass defaults.
Segment(filename, created_at, file_size) ==
    [id |-> NoneInt, filename |-> filename, created_at |-> created_at,
     uploaded_at |-> NoneInt, state |-> CREATED, upload_attempts |-> 0,
     last_error |-> NoneStr, s3_key |-> NoKey, s3_bucket |-> NoneStr,
     file_size |-> file_size]

mark_uploading(s) ==
    [s EXCEPT !.state = UPLOADING, !.upload_attempts = @ + 1]

mark_uploaded(s, key, bucket, t) ==
    [s EXCEPT !.state = UPLOADED, !.uploaded_at = t, !.s3_key = key,
              !.s3_bucket = bucket, !.last_error = NoneStr]

mark_failed(s, error) ==
    [s EXCEPT !.state = FAILED, !.last_error = error]

mark_cleaned(s) ==
    [s EXCEPT !.state = CLEANED]

\* ------------------------------------------------------------- the store
\* The store is the set of rows of table segments; filename is UNIQUE and
\* id is INTEGER PRIMARY KEY AUTOINCREMENT (ids are never handed out twice).

HasFilename(rs, filename) == \E r \in rs : r.filename = filename

\* id INTEGER PRIMARY KEY AUTOINCREMENT: the id of a new row is one above
\* the largest id the table ever held (sqlite_sequence), which newId models.
\* (InsertIdAboveLargest: the id a plain INTEGER PRIMARY KEY would get, one
\* above the largest id in the table now.)
InsertIdAboveLargest(rs, newId) ==
    IF rs = {} THEN 1
    ELSE 1 + (CHOOSE i \in { r.id : r \in rs } : \A r \in rs : r.id <= i)
InsertId(rs, newId) == newId

\* INSERT of add_segment: only filename, filepath, created_at, state and
\* file_size are written; the other columns take their defaults.
InsertedRow(seg, newId) ==
    [id |-> newId, filename |-> seg.filename, created_at |-> seg.created_at,
     uploaded_at |-> NoneInt, state |-> seg.state, upload_attempts |-> 0,
     last_error |-> NoneStr, s3_key |-> NoKey, s3_bucket |-> NoneStr,
     file_size |-> seg.file_size]

\* The UNIQUE constraint on filename: the INSERT raises when it is violated.
InsertAllowedNoCheck(rs, seg) == TRUE
InsertAllowed(rs, seg) == ~HasFilename(rs, seg.filename)

\* UPDATE of update_segment: overwrites the six mutable columns of the row
\* whose id matches; no row matching is not an error.
\* (UpdatedRowsEveryRow: the UPDATE without its WHERE clause.)
UpdatedRowsEveryRow(rs, seg) ==
    { [r EXCEPT !.state = seg.state,
                !.upload_attempts = seg.upload_attempts,
                !.last_error = seg.last_error,
                !.uploaded_at = seg.uploaded_at,
                !.s3_key = seg.s3_key,
                !.s3_bucket = seg.s3_bucket] : r \in rs }
UpdatedRows(rs, seg) ==
    { IF r.id = seg.id
        THEN [r EXCEPT !.state = seg.state,
                       !.upload_attempts = seg.upload_attempts,
                       !.last_error = seg.last_error,
                       !.uploaded_at = seg.uploaded_at,
                       !.s3_key = seg.s3_key,
                       !.s3_bucket = seg.s3_bucket]
        ELSE r : r \in rs }

get_segment_by_filename(rs, filename) == { r \in rs : r.filename = filename }
get_segment_by_id(rs, id) == { r \in rs : r.id = id }

\* UPDATE segments SET state = 'created' WHERE state = 'uploading'
ResetRowsToFailed(rs) ==
    { IF r.state = UPLOADING THEN [r EXCEPT !.state = FAILED] ELSE r : r \in rs }
\* (ResetRowsAndFailed: the same with FAILED rows reset as well.)
ResetRowsAndFailed(rs) ==
    { IF r.state \in {UPLOADING, FAILED} THEN [r EXCEPT !.state = CREATED] ELSE r
      : r \in rs }
ResetRows(rs) ==
    { IF r.state = UPLOADING THEN [r EXCEPT !.state = CREATED] ELSE r : r \in rs }
ResetRowcount(rs) == Cardinality({ r \in rs : r.state = UPLOADING })

\* Rows as a list in ascending (key, id) order.
RECURSIVE SortRows(_, _)
SortRows(rs, key) ==
    IF rs = {} THEN <<>>
    ELSE LET first == CHOOSE r \in rs :
                          \A q \in rs : \/ r[key] < q[key]
                                        \/ r[key] = q[key] /\ r.id <= q.id
         IN <<first>> \o SortRows(rs \ {first}, key)

Take(seq, n) == SubSeq(seq, 1, IF Len(seq) < n THEN Len(seq) ELSE n)

\* The same query without its WHERE clause.
get_segments_any_state(rs, state, limit) ==
    Take(SortRows(rs, "created_at"), limit)

\* SELECT * WHERE state = ? ORDER BY created_at ASC LIMIT ?
get_segments_by_state(rs, state, limit) ==
    Take(SortRows({ r \in rs : r.state = state }, "created_at"), limit)

\* SELECT * WHERE state = 'uploaded'
\*   AND datetime(uploaded_at) < datetime(now, '-N minutes')
\* ORDER BY uploaded_at ASC
\* (get_uploaded_segments_any_age: the same without the test of the age.)
get_uploaded_segments_any_age(rs, t, older_than_minutes) ==
    SortRows({ r \in rs : r.state = UPLOADED /\ r.uploaded_at # NoneInt },
             "uploaded_at")
get_uploaded_segments(rs, t, older_than_minutes) ==
    SortRows({ r \in rs : /\ r.state = UPLOADED
                          /\ r.uploaded_at # NoneInt
                          /\ r.uploaded_at < t - older_than_minutes },
             "uploaded_at")

\* DELETE FROM segments WHERE state = 'cleaned'
\*   AND datetime(created_at) < datetime('now', '-N days')
MinutesPerDay == 1440
PurgedRows(rs, t, days) ==
    { r \in rs : r.state = CLEANED /\ r.created_at < t - days * MinutesPerDay }

count_by_state(rs, state) == Cardinality({ r \in rs : r.state = state })

\* A store operation runs in one transaction (_cursor): it commits, or an
\* sqlite3.Error rolls it back and it raises DatabaseError.  `fault` is an
\* sqlite3.Error other than a constraint violation (a locked database).

add_segment(rs, newId, seg, fault) ==
    IF fault \/ ~InsertAllowed(rs, seg)
      THEN [rows |-> rs, nextId |-> newId, id |-> seg.id, raised |-> TRUE]
      ELSE [rows |-> rs \cup {InsertedRow(seg, InsertId(rs, newId))},
            nextId |-> newId + 1, id |-> InsertId(rs, newId), raised |-> FALSE]

update_segment(rs, seg, fault) ==
    IF seg.id = NoneInt \/ fault
      THEN [rows |-> rs, raised |-> TRUE]
      ELSE [rows |-> UpdatedRows(rs, seg), raised |-> FALSE]

reset_uploading_segments(rs, fault) ==
    IF fault
      THEN [rows |-> rs, ret |-> 0, raised |-> TRUE]
      ELSE [rows |-> ResetRows(rs), ret |-> ResetRowcount(rs), raised |-> FALSE]

cleanup_old_records(rs, t, days, fault) ==
    IF fault
      THEN [rows |-> rs, ret |-> 0, raised |-> TRUE]
      ELSE [rows |-> rs \ PurgedRows(rs, t, days),
            ret |-> Cardinality(PurgedRows(rs, t, days)), raised |-> FALSE]

\* -------------------------------------------------------- configuration
local_buffer_minutes == 1   \* storage.local_buffer_minutes
max_disk_usage_mb == 10     \* storage.max_disk_usage_mb
retry_delay == 5            \* s3.retry_delay, seconds
MaxBackoff == 60            \* min(delay * 2, 60)
DefaultLimit == 100             \* limit of get_segments_by_state / get_failed_segments
EmergencyLimit == 50        \* get_segments_by_state(UPLOADED, limit=50)
CleanupDays == 7            \* cleanup_old_records(days=7)
MinutesPerHour == 60
stale_threshold == 10           \* health.stale_threshold, seconds
restart_window_default == 300   \* health.restart_window, seconds
PollSeconds == 5                \* time.sleep(5) of the monitor loop

\* s3.prefix: the default names the camera only; a template may also name
\* {year}, {month}, {day} and {hour}.
DefaultTemplate == "cameras/{camera_name}/"
DatedTemplate == "cameras/{camera_name}/{year}/{month}/{day}/{hour}/"

\* The sizes of the chunk files the capture process writes: two small files
\* stay under the limit, a small and a large one exceed it.
FileSizes == {2, max_disk_usage_mb - 1}
ChunkSize == 2

VARIABLES
    rows,         \* table segments
    nextId,       \* the next AUTOINCREMENT id
    now,          \* the pipeline clock, minutes
    lastCall,     \* the store-interface call made last, with its outcome
    files,        \* segments directory: filename -> size in MB, 0 = no file
    nextFile,     \* the filename the capture process writes next
    events,       \* file-created events the observer has not dispatched yet
    queue,        \* S3Uploader._queue: Segment objects awaiting upload
    worker,       \* the upload worker thread: position and local variables
    main,         \* Pipeline.start: position and the startup scan's file list
    cleanup,      \* the buffer-cleanup thread: position and local variables
    crashes,      \* times the process was killed and started again
    max_retries,  \* the configured s3.max_retries
    prefix_template, \* the configured s3.prefix
    exhausted,    \* filenames whose every attempt ended in a transfer error
    capture,      \* the capture supervisor (SegmenterManager) and its process
    transfers,    \* filename -> calls of _upload_file made for it so far
    ingest,       \* the calls of _handle_new_segment in progress, per thread
    health,       \* the HealthChecker: its fields, its status, its reports
    mtimes,       \* segments directory: filename -> st_mtime in seconds
    shutdown,     \* the shutdown request of Pipeline.stop
    backoff,      \* one run of the retry loop of _upload_with_retry
    status,       \* a HealthStatus object and what its to_dict reported
    segmenter,    \* a Segmenter object, its ffmpeg process, its last stop()
    manager       \* SegmenterManager with its monitor thread and a stop() call

storeVars == <<rows, nextId>>
pipeVars == <<files, nextFile, events, queue, worker, main, cleanup, crashes,
              max_retries, prefix_template, exhausted, capture, transfers,
                   ingest,
          health, mtimes, shutdown, backoff,
                   status, segmenter, manager>>
vars == <<rows, nextId, now, lastCall, files, nextFile, events, queue, worker,
          main, cleanup, crashes, max_retries, prefix_template, exhausted,
          capture, transfers, ingest,
          health, mtimes, shutdown, backoff,
                   status, segmenter, manager>>

\* SegmenterManager.__init__ with no Segmenter object yet: segmenter is the
\* Segmenter the attribute refers to (0 = None), objs the Segmenter objects
\* created so far (_running, and whether the ffmpeg process is alive), mpc
\* the position of the monitor thread and spc the position of a stop() call.
Objects == 1..(MaxRestarts + 1)

ManagerConstructed ==
    [should_run |-> FALSE, restart_count |-> 0, max_restarts |-> 0,
     segmenter |-> 0, created |-> 0,
     objs |-> [o \in Objects |-> [running |-> FALSE, alive |-> FALSE]],
     mpc |-> "none", spc |-> "none"]

NoSegment == Segment(0, 0, 0)

\* HealthChecker.__init__: last_segment_time and last_segment_count, the
\* HealthStatus it keeps (capture_running, ffmpeg_restarts,
\* status_last_segment_time), and what it has done so far: checks made,
\* issue messages passed to the callback, in order.
HealthConstructed ==
    [last_segment_time |-> NoneInt, last_segment_count |-> 0,
     capture_running |-> FALSE, ffmpeg_restarts |-> 0,
     status_last_segment_time |-> NoneInt, checks |-> 0, issues |-> <<>>]

\* No shutdown requested.  at: the calls of _upload_file made when it was
\* requested; in_flight, held: the worker held a segment then, and its
\* filename.
NotRequested ==
    [requested |-> FALSE, at |-> [f \in Filenames |-> 0], in_flight |-> FALSE,
     held |-> 0]

\* Segmenter.__init__: _running False, _process None.  os: the ffmpeg process
\* as the operating system has it ("none", "running", "exited"); starts: the
\* calls of start() made; stop: what the last call of stop() did.
NoStop ==
    [called |-> FALSE, returned_early |-> FALSE, signals |-> <<>>,
     alive_at_timeout |-> FALSE, waits |-> <<>>, error |-> "none",
     was |-> "none"]
SegmenterConstructed ==
    [running |-> FALSE, process |-> FALSE, os |-> "none", starts |-> 0,
     stop |-> NoStop]

\* HealthStatus(): the defaults of the dataclass.  NoStatus: no status object
\* built yet; healthy: the 'healthy' entry of the last to_dict.
HealthStatus ==
    [capture_running |-> FALSE, upload_running |-> FALSE,
     server_running |-> FALSE, last_segment_time |-> NoneInt,
     segments_pending |-> 0, segments_failed |-> 0, disk_usage_mb |-> 0,
     disk_limit_mb |-> 0, ffmpeg_restarts |-> 0, upload_errors |-> 0]
NoStatus == [st |-> HealthStatus, reported |-> FALSE, healthy |-> FALSE]

\* The retry loop before its first turn: the configured retry_delay and
\* max_retries, the attempts made, the local delay, the sleeps taken.
BackoffIdle ==
    [pc |-> "idle", base |-> 0, max_retries |-> 0, upload_attempts |-> 0,
     delay |-> 0, slept |-> <<>>]

\* A call of LocalBuffer._handle_new_segment: its position, its path and its
\* local segment.  handled: the filenames a call has returned for without an
\* exception; raised: those a call has caught an exception for.
HandlerIdle == [pc |-> "idle", filename |-> 0, segment |-> NoSegment]
IngestIdle == [scan |-> HandlerIdle, observer |-> HandlerIdle, handled |-> {},
               raised |-> {}, notified |-> 0]

WorkerIdle ==
    [pc |-> "idle", segment |-> NoSegment, delay |-> retry_delay,
     error |-> NoneStr, transfer_errors |-> 0, upload_count |-> 0,
     error_count |-> 0]

\* list, idx: the segments a cleanup loop walks and its position; emergency:
\* _emergency_cleanup ran in this cycle; start_files: the directory when it
\* began; checks: the usage it read after each segment.
CleanupIdle ==
    [pc |-> "wait", list |-> <<>>, idx |-> 0, emergency |-> FALSE,
     start_files |-> [f \in Filenames |-> 0], checks |-> <<>>]

MainStart == [phase |-> "reset", scan |-> <<>>]

\* SegmenterManager.__init__, with the two values _monitor_loop reads from
\* the health configuration.  monitor: the monitor thread ("none", "running",
\* "exited"); alive: the ffmpeg process of self.segmenter is running; clock:
\* time.time().  restarts, polls, deaths count, since window_start was last
\* set, the Segmenter starts the monitor made, its polls, and the polls that
\* found the process dead; quota_stop: the monitor left on the quota;
\* started_at: the clock of every start of a replacement process so far;
\* up_since: the clock of the last start of a process.
SupervisorConstructed(maxRestarts, restartWindow) ==
    [should_run |-> FALSE, restart_count |-> 0, has_segmenter |-> FALSE,
     alive |-> FALSE, monitor |-> "none", window_start |-> 0, clock |-> 0,
     max_restarts |-> maxRestarts, restart_window |-> restartWindow,
     restarts |-> 0, polls |-> 0, deaths |-> 0, quota_stop |-> FALSE,
     started_at |-> <<>>, up_since |-> 0]

\* ------------------------------------------- the store interface, driven
\* by an arbitrary caller (the tests of tests/test_database.py are runs of it)

\* lastCall: op, the segment object passed (an add that returned) and the
\* filename passed (add),
\* the id the segment object holds after the call, the value returned
\* (reset, purge), whether the call raised, and whether the call before it
\* was a reset that returned.  flip changes on every call.
NoCall ==
    [op |-> "none", flip |-> 0, arg |-> NoSegment, filename |-> 0,
     id |-> NoneInt, ret |-> 0, raised |-> FALSE, after_reset |-> FALSE]

Called(op, arg, id, ret, raised) ==
    lastCall' = [op |-> op, flip |-> 1 - lastCall.flip, arg |-> arg,
                 filename |-> arg.filename,
                 id |-> id, ret |-> ret, raised |-> raised,
                 after_reset |-> (op = "reset" /\ lastCall.op = "reset"
                                  /\ ~lastCall.raised)]

\* add_segment of a segment object in any state, with any attempts count,
\* created PastMinutes ago.
StoreAdd ==
    \E filename \in StoreFilenames, state \in SegmentState,
       attempts \in 0..MaxAttempts, fault \in BOOLEAN :
      LET seg == [Segment(filename, now - PastMinutes, 1) EXCEPT
                    !.state = state, !.upload_attempts = attempts]
          res == add_segment(rows, nextId, seg, fault)
      IN /\ nextId <= MaxIds \/ res.raised
         /\ rows' = res.rows
         /\ nextId' = res.nextId
         /\ Called("add",
                   IF res.raised THEN [NoSegment EXCEPT !.filename = filename]
                                 ELSE seg,
                   res.id, 0, res.raised)
         /\ UNCHANGED <<now, pipeVars>>

\* The segment passed to update_segment: a row read back from the store and
\* changed by one of the mark_ methods, each used on the state it is meant for.
Marked(r, how, t) ==
    CASE how = "uploading" -> mark_uploading(r)
      [] how = "uploaded" -> mark_uploaded(r, <<<<>>, r.filename>>, Bucket, t)
      [] how = "failed" -> mark_failed(r, "error")
      [] how = "cleaned" -> mark_cleaned(r)

StoreUpdate ==
    \E r \in rows, how \in {"uploading", "uploaded", "failed", "cleaned"},
       fault \in BOOLEAN :
      LET seg == Marked(r, how, now)
          res == update_segment(rows, seg, fault)
      IN /\ seg.upload_attempts <= MaxAttempts
         /\ \/ how = "uploading" /\ r.state = CREATED
            \/ how \in {"uploaded", "failed"} /\ r.state = UPLOADING
            \/ how = "cleaned" /\ r.state = UPLOADED
         /\ rows' = res.rows
         /\ Called("update", IF res.raised THEN NoSegment ELSE seg, seg.id, 0,
                   res.raised)
         /\ UNCHANGED <<nextId, now, pipeVars>>

\* update_segment of an object that has no row: one that was never added
\* (id None), or one read from a row that has been deleted since.
StoreUpdateNoRow ==
    \E id \in {NoneInt} \cup { i \in 1..(nextId - 1) : get_segment_by_id(rows, i) = {} },
       fault \in BOOLEAN :
      LET seg == [mark_cleaned(Segment(1, now, 1)) EXCEPT !.id = id]
          res == update_segment(rows, seg, fault)
      IN /\ rows' = res.rows
         /\ Called("update", NoSegment, seg.id, 0, res.raised)
         /\ UNCHANGED <<nextId, now, pipeVars>>

\* get_segment_by_filename(filename) and get_segment_by_id(id), for a key
\* that may or may not be there: the Segment found, or None.  ret: the id of
\* the Segment returned, None for None.
StoreGet ==
    /\ \/ \E filename \in StoreFilenames :
            LET found == get_segment_by_filename(rows, filename)
            IN Called("get_by_filename", [NoSegment EXCEPT !.filename = filename],
                      NoneInt,
                      IF found = {} THEN NoneInt ELSE (CHOOSE r \in found : TRUE).id,
                      FALSE)
       \/ \E id \in 1..nextId :
            LET found == get_segment_by_id(rows, id)
            IN Called("get_by_id", NoSegment, id,
                      IF found = {} THEN NoneInt ELSE (CHOOSE r \in found : TRUE).id,
                      FALSE)
    /\ UNCHANGED <<rows, nextId, now, pipeVars>>

\* cleanup_old_records(days)
StorePurge ==
    \E days \in {0, CleanupDays}, fault \in BOOLEAN :
      LET res == cleanup_old_records(rows, now, days, fault)
      IN /\ rows' = res.rows
         /\ Called("purge", NoSegment, NoneInt, res.ret, res.raised)
         /\ UNCHANGED <<nextId, now, pipeVars>>

StoreReset ==
    \E fault \in BOOLEAN :
      LET res == reset_uploading_segments(rows, fault)
      IN /\ rows' = res.rows
         /\ Called("reset", NoSegment, NoneInt, res.ret, res.raised)
         /\ UNCHANGED <<nextId, now, pipeVars>>

InitPipe ==
    /\ files = [f \in Filenames |-> 0]
    /\ nextFile = 1
    /\ events = <<>>
    /\ queue = <<>>
    /\ worker = WorkerIdle
    /\ main = MainStart
    /\ cleanup = CleanupIdle
    /\ crashes = 0
    /\ exhausted = {}
    /\ transfers = [f \in Filenames |-> 0]
    /\ ingest = IngestIdle
    /\ health = HealthConstructed
    /\ mtimes = [f \in Filenames |-> NoneInt]
    /\ shutdown = NotRequested
    /\ backoff = BackoffIdle
    /\ status = NoStatus
    /\ segmenter = SegmenterConstructed
    /\ manager = ManagerConstructed
    /\ capture = SupervisorConstructed(MaxRestarts, restart_window_default)

InitStore ==
    /\ rows = {}
    /\ nextId = 1
    /\ now = StartMinute
    /\ lastCall = NoCall
    /\ max_retries = MaxRetries
    /\ prefix_template = DefaultTemplate
    /\ InitPipe

NextStore ==
    \/ StoreAdd
    \/ StoreUpdate
    \/ StoreUpdateNoRow
    \/ StoreReset
    \/ StorePurge
    \/ StoreGet

SpecStore == InitStore /\ [][NextStore]_vars

\* ============================================================ the pipeline
\* Every step below is one store operation or one file operation together
\* with the thread-local computation around it.  FS is the set a store fault
\* is drawn from: BOOLEAN where sqlite3 may fail, {FALSE} where it does not.

\* The threads of the uploader and of the local buffer exist: start() is
\* past the reset.
\* (RunningBeforeReset: the same with the threads started ahead of the reset.)
RunningBeforeReset == main.phase \in {"reset", "scan", "running"}
Running == main.phase \in {"scan", "running"}

DiskUsage(fs) ==
    LET RECURSIVE Sum(_)
        Sum(S) == IF S = {} THEN 0
                  ELSE LET f == CHOOSE x \in S : TRUE IN fs[f] + Sum(S \ {f})
    IN Sum(Filenames)

\* ---------------------------------------------------------------- capture
\* The capture process writes the next chunk file; the observer queues a
\* file-created event for it.
CaptureWrite ==
    /\ main.phase = "running"
    /\ nextFile <= MaxFiles
    /\ \E size \in FileSizes : files' = [files EXCEPT ![nextFile] = size]
    /\ events' = Append(events, nextFile)
    /\ nextFile' = nextFile + 1
    /\ UNCHANGED <<rows, nextId, now, lastCall, queue, worker, main, cleanup,
                   crashes, max_retries, prefix_template,
                   exhausted, capture, transfers,
                   ingest,
                   health, mtimes, shutdown, backoff,
                   status, segmenter, manager>>

\* ----------------------------------------------------------------- ingest
\* Segment.from_file: created_at is the time of registration, file_size is
\* read from the file.
from_file(filename, fs, t) == Segment(filename, t, fs[filename])

\* LocalBuffer._handle_new_segment as one step.  In the pipeline
\* specifications chunk files appear only once capture runs, after the
\* startup scan, and the observer thread dispatches one event after the
\* other, so no two calls overlap there; the calls of the scan and of the
\* observer interleaved are the registration steps further down.  Any
\* exception in it is caught and logged.
handle_new_segment(filename, lookupFault, addFault) ==
    LET seg == from_file(filename, files, now)
        res == add_segment(rows, nextId, seg, addFault)
    IN IF lookupFault \/ HasFilename(rows, filename) \/ res.raised
         THEN UNCHANGED <<rows, nextId, queue>>
         ELSE /\ rows' = res.rows
              /\ nextId' = res.nextId
              /\ queue' = Append(queue, [seg EXCEPT !.id = res.id])

\* SegmentEventHandler.on_created for a .ts file: after the settle delay the
\* file is handled if it still exists.
WatchEvent(FS) ==
    /\ Running
    /\ events # <<>>
    /\ events' = Tail(events)
    /\ IF files[Head(events)] > 0
         THEN \E lookupFault \in FS, addFault \in FS :
                 handle_new_segment(Head(events), lookupFault, addFault)
         ELSE UNCHANGED <<rows, nextId, queue>>
    /\ UNCHANGED <<now, lastCall, files, nextFile, worker, main, cleanup,
                   crashes, max_retries, prefix_template,
                   exhausted, capture, transfers,
                   ingest,
                   health, mtimes, shutdown, backoff,
                   status, segmenter, manager>>

\* ---------------------------------------------------------- upload worker
RetryExhaustedText == "Failed to upload"
DatabaseErrorText == "Database operation failed"
OtherErrorText == "unexpected error"
\* error_msg = str(e) of a ClientError/BotoCoreError: a local of the except
\* branch, written to the log only.
TransferErrorText == "An error occurred (RequestTimeout)"

\* self.prefix_template.format(camera_name=..., year=..., month=..., day=...,
\* hour=...) over a time t: the date fields the template names, as the hour
\* t falls in; none for a template that names no date field.
Partition(t) == t \div MinutesPerHour
format_prefix(template, t) ==
    IF template = DatedTemplate THEN <<Partition(t)>> ELSE <<>>

\* S3Uploader._build_s3_key: the prefix template filled from created_at,
\* followed by the filename.
\* (build_s3_key_upload_time: the same with the time of the upload.)
build_s3_key_upload_time(seg) ==
    <<format_prefix(prefix_template, now), seg.filename>>
build_s3_key(seg) ==
    <<format_prefix(prefix_template, seg.created_at), seg.filename>>

\* while segment.upload_attempts < self.max_retries
CanAttemptOneMore(seg, maxRetries) == seg.upload_attempts <= maxRetries
CanAttempt(seg, maxRetries) == seg.upload_attempts < maxRetries

NextDelay(delay) == IF delay * 2 < MaxBackoff THEN delay * 2 ELSE MaxBackoff

\* while not self._stop_event.is_set(): segment = self._queue.get(timeout=1.0);
\* delay = self.retry_delay
\* (WorkerDequeueNewest: the same with the segment queued last taken first.)
WorkerDequeueNewest ==
    /\ Running
    /\ ~shutdown.requested
    /\ worker.pc = "idle"
    /\ queue # <<>>
    /\ worker' = [worker EXCEPT !.pc = "loop", !.segment = queue[Len(queue)],
                                !.delay = retry_delay, !.error = NoneStr,
                                !.transfer_errors = 0]
    /\ queue' = SubSeq(queue, 1, Len(queue) - 1)
    /\ UNCHANGED <<rows, nextId, now, lastCall, files, nextFile, events, main,
                   cleanup, crashes, max_retries, prefix_template,
                   exhausted, capture, transfers, ingest, health, mtimes,
                   shutdown, backoff, status, segmenter, manager>>
WorkerDequeue ==
    /\ Running
    /\ ~shutdown.requested
    /\ worker.pc = "idle"
    /\ queue # <<>>
    /\ worker' = [worker EXCEPT !.pc = "loop", !.segment = Head(queue),
                                !.delay = retry_delay, !.error = NoneStr,
                                !.transfer_errors = 0]
    /\ queue' = Tail(queue)
    /\ UNCHANGED <<rows, nextId, now, lastCall, files, nextFile, events, main,
                   cleanup, crashes, max_retries, prefix_template,
                   exhausted, capture, transfers,
                   ingest,
                   health, mtimes, shutdown, backoff,
                   status, segmenter, manager>>

\* The loop test of _upload_with_retry; then mark_uploading and its
\* update_segment, or RetryExhaustedError when the budget is used up.
WorkerAttempt(FS) ==
    /\ worker.pc = "loop"
    /\ IF CanAttempt(worker.segment, max_retries)
         THEN \E fault \in FS :
                LET seg == mark_uploading(worker.segment)
                    res == update_segment(rows, seg, fault)
                IN /\ rows' = res.rows
                   /\ worker' = IF res.raised
                        THEN [worker EXCEPT !.pc = "failing", !.segment = seg,
                                            !.error = DatabaseErrorText]
                        ELSE [worker EXCEPT !.pc = "transfer", !.segment = seg]
         ELSE /\ worker' = [worker EXCEPT !.pc = "failing",
                                          !.error = RetryExhaustedText]
              /\ UNCHANGED rows
    /\ UNCHANGED <<nextId, now, lastCall, files, nextFile, events, queue, main,
                   cleanup, crashes, max_retries, prefix_template,
                   exhausted, capture, transfers,
                   ingest,
                   health, mtimes, shutdown, backoff,
                   status, segmenter, manager>>

\* _upload_file, then on success mark_uploaded and its update_segment.
\* A ClientError/BotoCoreError goes back to the loop test after the backoff
\* sleep; any other exception (stat() of a missing file, the transfer
\* library's own error types, the store) leaves _upload_with_retry.
WorkerTransfer(FS, outcomes) ==
    /\ worker.pc = "transfer"
    /\ transfers' = [transfers EXCEPT ![worker.segment.filename] = @ + 1]
    /\ \E outcome \in outcomes, fault \in FS :
         CASE outcome = "ok" /\ files[worker.segment.filename] > 0 ->
                LET seg == mark_uploaded(worker.segment,
                                         build_s3_key(worker.segment), Bucket, now)
                    res == update_segment(rows, seg, fault)
                IN /\ rows' = res.rows
                   /\ worker' = IF res.raised
                        THEN [worker EXCEPT !.pc = "failing", !.segment = seg,
                                            !.error = DatabaseErrorText]
                        ELSE [worker EXCEPT !.pc = "idle", !.segment = NoSegment,
                                            !.upload_count = @ + 1]
                   /\ UNCHANGED exhausted
           [] outcome = "transfer_error" /\ files[worker.segment.filename] > 0 ->
                /\ worker' = [worker EXCEPT
                       !.pc = "loop",
                       !.transfer_errors = @ + 1,
                       !.delay = IF CanAttempt(worker.segment, max_retries)
                                   THEN NextDelay(@) ELSE @]
                /\ exhausted' =
                     IF worker.transfer_errors + 1 = max_retries
                       THEN exhausted \cup {worker.segment.filename}
                       ELSE exhausted
                /\ UNCHANGED rows
           [] OTHER ->
                /\ worker' = [worker EXCEPT !.pc = "failing",
                                            !.error = OtherErrorText]
                /\ UNCHANGED <<rows, exhausted>>
    /\ UNCHANGED <<nextId, now, lastCall, files, nextFile, events, queue, main,
                   cleanup, crashes, max_retries, prefix_template,
                   capture, ingest,
                   health, mtimes, shutdown, backoff,
                   status, segmenter, manager>>

\* (WorkerFailCountFirst: WorkerFail with the error counted ahead of the
\* update_segment.)
WorkerFailCountFirst(FS) ==
    /\ worker.pc = "failing"
    /\ \E fault \in FS :
         LET seg == mark_failed(worker.segment, worker.error)
             res == update_segment(rows, seg, fault)
         IN /\ rows' = res.rows
            /\ worker' = IF res.raised
                 THEN [worker EXCEPT !.pc = "dead", !.segment = seg,
                                     !.error_count = @ + 1]
                 ELSE [worker EXCEPT !.pc = "idle", !.segment = NoSegment,
                                     !.error_count = @ + 1]
    /\ UNCHANGED <<nextId, now, lastCall, files, nextFile, events, queue, main,
                   cleanup, crashes, max_retries, prefix_template,
                   exhausted, capture, transfers,
                   ingest,
                   health, mtimes, shutdown, backoff,
                   status, segmenter, manager>>

\* The except branches of _upload_loop: mark_failed, update_segment, count
\* the error.  An exception of this update_segment is caught by nothing: it
\* ends the worker thread.
WorkerFail(FS) ==
    /\ worker.pc = "failing"
    /\ \E fault \in FS :
         LET seg == mark_failed(worker.segment, worker.error)
             res == update_segment(rows, seg, fault)
         IN /\ rows' = res.rows
            /\ worker' = IF res.raised
                 THEN [worker EXCEPT !.pc = "dead", !.segment = seg]
                 ELSE [worker EXCEPT !.pc = "idle", !.segment = NoSegment,
                                     !.error_count = @ + 1]
    /\ UNCHANGED <<nextId, now, lastCall, files, nextFile, events, queue, main,
                   cleanup, crashes, max_retries, prefix_template,
                   exhausted, capture, transfers,
                   ingest,
                   health, mtimes, shutdown, backoff,
                   status, segmenter, manager>>

\* -------------------------------------------------------- buffer cleanup
\* _cleanup_loop: _perform_cleanup every 60 s; an exception that leaves
\* _perform_cleanup is caught and ends the cycle.

\* usage_mb > self.max_disk_usage_mb
OverLimit(usage) == usage > max_disk_usage_mb
\* self.get_disk_usage_mb() < self.max_disk_usage_mb * 0.9
\* (UnderLimit: the same test against the limit itself.)
UnderLimit(usage) == usage < max_disk_usage_mb
UnderTarget(usage) == 10 * usage < 9 * max_disk_usage_mb

\* segments = self.database.get_uploaded_segments(older_than_minutes=...)
CleanupStart(FS) ==
    /\ Running
    /\ cleanup.pc = "wait"
    /\ \E fault \in FS :
         cleanup' = IF fault THEN CleanupIdle
                    ELSE [CleanupIdle EXCEPT
                            !.pc = "normal", !.idx = 1,
                            !.list = get_uploaded_segments(rows, now,
                                                           local_buffer_minutes)]
    /\ UNCHANGED <<rows, nextId, now, lastCall, files, nextFile, events, queue,
                   worker, main, crashes, max_retries, prefix_template,
                   exhausted, capture, transfers,
                   ingest,
                   health, mtimes, shutdown, backoff,
                   status, segmenter, manager>>

\* One turn of the loop of _perform_cleanup: unlink the file if it exists,
\* mark_cleaned, update_segment.  An exception of unlink or of
\* update_segment is caught and logged; after one of unlink neither
\* mark_cleaned nor update_segment is reached.
\* (PerformCleanupTurnMarksAnyway: the same with the unlink in a try of its
\* own, so that the segment is marked cleaned whether or not the file went.)
PerformCleanupTurnMarksAnyway(FS, US) ==
    /\ cleanup.pc = "normal"
    /\ cleanup.idx <= Len(cleanup.list)
    /\ LET seg == cleanup.list[cleanup.idx]
       IN \E unlinkFault \in US, fault \in FS :
            /\ files' = IF unlinkFault THEN files
                        ELSE [files EXCEPT ![seg.filename] = 0]
            /\ rows' = update_segment(rows, mark_cleaned(seg), fault).rows
    /\ cleanup' = [cleanup EXCEPT !.idx = @ + 1]
    /\ UNCHANGED <<nextId, now, lastCall, nextFile, events, queue, worker, main,
                   crashes, max_retries, prefix_template,
                   exhausted, capture, transfers,
                   ingest,
                   health, mtimes, shutdown, backoff,
                   status, segmenter, manager>>

PerformCleanupTurn(FS, US) ==
    /\ cleanup.pc = "normal"
    /\ cleanup.idx <= Len(cleanup.list)
    /\ LET seg == cleanup.list[cleanup.idx]
       IN \E unlinkFault \in US, fault \in FS :
            IF files[seg.filename] > 0 /\ unlinkFault
              THEN UNCHANGED <<files, rows>>
              ELSE /\ files' = [files EXCEPT ![seg.filename] = 0]
                   /\ rows' = update_segment(rows, mark_cleaned(seg),
                                             fault).rows
    /\ cleanup' = [cleanup EXCEPT !.idx = @ + 1]
    /\ UNCHANGED <<nextId, now, lastCall, nextFile, events, queue, worker, main,
                   crashes, max_retries, prefix_template,
                   exhausted, capture, transfers,
                   ingest,
                   health, mtimes, shutdown, backoff,
                   status, segmenter, manager>>

\* The turn when unlink does not fail.
CleanupNormalStep(FS) ==
    /\ cleanup.pc = "normal"
    /\ cleanup.idx <= Len(cleanup.list)
    /\ LET seg == cleanup.list[cleanup.idx]
       IN /\ files' = [files EXCEPT ![seg.filename] = 0]
          /\ \E fault \in FS :
               rows' = update_segment(rows, mark_cleaned(seg), fault).rows
    /\ cleanup' = [cleanup EXCEPT !.idx = @ + 1]
    /\ UNCHANGED <<nextId, now, lastCall, nextFile, events, queue, worker, main,
                   crashes, max_retries, prefix_template,
                   exhausted, capture, transfers,
                   ingest,
                   health, mtimes, shutdown, backoff,
                   status, segmenter, manager>>

\* _check_disk_usage, and the query that opens _emergency_cleanup.
CleanupCheckDisk(FS) ==
    /\ cleanup.pc = "normal"
    /\ cleanup.idx > Len(cleanup.list)
    /\ IF OverLimit(DiskUsage(files))
         THEN \E fault \in FS :
                LET segs == get_segments_by_state(rows, UPLOADED, EmergencyLimit)
                IN cleanup' =
                     IF fault THEN CleanupIdle
                     ELSE [cleanup EXCEPT
                             !.pc = IF segs = <<>> THEN "purge" ELSE "emergency",
                             !.list = segs, !.idx = 1, !.emergency = TRUE,
                             !.start_files = files, !.checks = <<>>]
         ELSE cleanup' = [cleanup EXCEPT !.pc = "purge"]
    /\ UNCHANGED <<rows, nextId, now, lastCall, files, nextFile, events, queue,
                   worker, main, crashes, max_retries, prefix_template,
                   exhausted, capture, transfers,
                   ingest,
                   health, mtimes, shutdown, backoff,
                   status, segmenter, manager>>

\* One turn of the loop of _emergency_cleanup, up to the usage test: a file
\* that exists is unlinked and its segment marked cleaned and updated; an
\* exception of unlink or of update_segment is caught and logged.
EmergencyCleanupTurn(FS, US) ==
    /\ cleanup.pc = "emergency"
    /\ LET seg == cleanup.list[cleanup.idx]
       IN \E unlinkFault \in US, fault \in FS :
            IF files[seg.filename] > 0 /\ ~unlinkFault
              THEN /\ files' = [files EXCEPT ![seg.filename] = 0]
                   /\ rows' = update_segment(rows, mark_cleaned(seg),
                                             fault).rows
              ELSE UNCHANGED <<files, rows>>
    /\ cleanup' = [cleanup EXCEPT !.pc = "emcheck"]
    /\ UNCHANGED <<nextId, now, lastCall, nextFile, events, queue, worker, main,
                   crashes, max_retries, prefix_template,
                   exhausted, capture, transfers,
                   ingest,
                   health, mtimes, shutdown, backoff,
                   status, segmenter, manager>>

\* The turn when unlink does not fail.
CleanupEmergencyStep(FS) ==
    /\ cleanup.pc = "emergency"
    /\ LET seg == cleanup.list[cleanup.idx]
       IN IF files[seg.filename] > 0
            THEN /\ files' = [files EXCEPT ![seg.filename] = 0]
                 /\ \E fault \in FS :
                      rows' = update_segment(rows, mark_cleaned(seg), fault).rows
            ELSE UNCHANGED <<files, rows>>
    /\ cleanup' = [cleanup EXCEPT !.pc = "emcheck"]
    /\ UNCHANGED <<nextId, now, lastCall, nextFile, events, queue, worker, main,
                   crashes, max_retries, prefix_template,
                   exhausted, capture, transfers,
                   ingest,
                   health, mtimes, shutdown, backoff,
                   status, segmenter, manager>>

\* The usage test that ends the turn: break under 90% of the limit.
CleanupEmergencyCheck ==
    /\ cleanup.pc = "emcheck"
    /\ LET usage == DiskUsage(files)
       IN cleanup' = [cleanup EXCEPT
            !.checks = Append(@, usage),
            !.pc = IF UnderTarget(usage) \/ cleanup.idx = Len(cleanup.list)
                     THEN "purge" ELSE "emergency",
            !.idx = IF UnderTarget(usage) \/ cleanup.idx = Len(cleanup.list)
                      THEN @ ELSE @ + 1]
    /\ UNCHANGED <<rows, nextId, now, lastCall, files, nextFile, events, queue,
                   worker, main, crashes, max_retries, prefix_template,
                   exhausted, capture, transfers,
                   ingest,
                   health, mtimes, shutdown, backoff,
                   status, segmenter, manager>>

\* self.database.cleanup_old_records(days=7), the end of the cycle.
CleanupPurge(FS) ==
    /\ cleanup.pc = "purge"
    /\ \E fault \in FS :
         rows' = cleanup_old_records(rows, now, CleanupDays, fault).rows
    /\ cleanup' = CleanupIdle
    /\ UNCHANGED <<nextId, now, lastCall, files, nextFile, events, queue, worker,
                   main, crashes, max_retries, prefix_template,
                   exhausted, capture, transfers,
                   ingest,
                   health, mtimes, shutdown, backoff,
                   status, segmenter, manager>>

\* ------------------------------------------------------- startup and crash
SortedFiles(fs) ==
    LET RECURSIVE Asc(_)
        Asc(S) == IF S = {} THEN <<>>
                  ELSE LET m == CHOOSE x \in S : \A y \in S : x <= y
                       IN <<m>> \o Asc(S \ {m})
    IN Asc({ f \in Filenames : fs[f] > 0 })

\* Pipeline.start up to the scan: reset_uploading_segments, then the upload
\* worker, the observer and the cleanup thread are started and the existing
\* chunk files are listed in sorted order.  An exception of the reset ends
\* the process.
MainReset(FS) ==
    /\ main.phase = "reset"
    /\ \E fault \in FS :
         LET res == reset_uploading_segments(rows, fault)
         IN /\ rows' = res.rows
            /\ main' = IF res.raised
                         THEN [phase |-> "down", scan |-> <<>>]
                         ELSE [phase |-> "scan", scan |-> SortedFiles(files)]
    /\ UNCHANGED <<nextId, now, lastCall, files, nextFile, events, queue, worker,
                   cleanup, crashes, max_retries, prefix_template,
                   exhausted, capture, transfers,
                   ingest,
                   health, mtimes, shutdown, backoff,
                   status, segmenter, manager>>

\* _process_existing_segments, one file per step; when the list is done the
\* capture process is started.
MainScanStep(FS) ==
    /\ main.phase = "scan"
    /\ IF main.scan = <<>>
         THEN /\ main' = [main EXCEPT !.phase = "running"]
              /\ UNCHANGED <<rows, nextId, queue>>
         ELSE /\ main' = [main EXCEPT !.scan = Tail(@)]
              /\ \E lookupFault \in FS, addFault \in FS :
                   handle_new_segment(Head(main.scan), lookupFault, addFault)
    /\ UNCHANGED <<now, lastCall, files, nextFile, events, worker, cleanup,
                   crashes, max_retries, prefix_template,
                   exhausted, capture, transfers,
                   ingest,
                   health, mtimes, shutdown, backoff,
                   status, segmenter, manager>>

\* The process is killed and started again: the store and the directory
\* stay, everything in memory is lost.
Crash ==
    /\ crashes < MaxCrashes
    /\ main.phase # "reset"
    /\ crashes' = crashes + 1
    /\ main' = MainStart
    /\ worker' = WorkerIdle
    /\ cleanup' = CleanupIdle
    /\ queue' = <<>>
    /\ events' = <<>>
    /\ UNCHANGED <<rows, nextId, now, lastCall, files, nextFile, max_retries,
                   prefix_template, exhausted, capture, transfers,
                   ingest,
                   health, mtimes, shutdown, backoff,
                   status, segmenter, manager>>

\* A minute passes; minutes is the length of the run.
Tick(minutes) ==
    /\ now < StartMinute + minutes
    /\ now' = now + 1
    /\ UNCHANGED <<rows, nextId, lastCall, files, nextFile, events, queue,
                   worker, main, cleanup, crashes, max_retries, prefix_template,
                   exhausted, capture, transfers,
                   ingest,
                   health, mtimes, shutdown, backoff,
                   status, segmenter, manager>>

TransferOutcomes == {"ok", "transfer_error", "other_error"}

Init ==
    /\ rows = {}
    /\ nextId = 1
    /\ now = StartMinute
    /\ lastCall = NoCall
    /\ max_retries \in 0..MaxRetries
    /\ prefix_template = DefaultTemplate
    /\ InitPipe

Next ==
    \/ CaptureWrite
    \/ WatchEvent(BOOLEAN)
    \/ WorkerDequeue
    \/ WorkerAttempt(BOOLEAN)
    \/ WorkerTransfer(BOOLEAN, TransferOutcomes)
    \/ WorkerFail(BOOLEAN)
    \/ CleanupStart(BOOLEAN)
    \/ CleanupNormalStep(BOOLEAN)
    \/ CleanupCheckDisk(BOOLEAN)
    \/ CleanupEmergencyStep(BOOLEAN)
    \/ CleanupEmergencyCheck
    \/ CleanupPurge(BOOLEAN)
    \/ MainReset(BOOLEAN)
    \/ MainScanStep(BOOLEAN)
    \/ Crash
    \/ Tick(MaxTime)

Spec == Init /\ [][Next]_vars

\* ------------------------------------------------------------ registration
\* LocalBuffer.start starts the observer and then lists the directory in the
\* main thread, so a call of _handle_new_segment by the observer thread may
\* run while a call by the scan runs, also for the same file (one that
\* appeared between the start of the observer and the listing, or one that
\* is notified again).  Each call is three steps: the lookup by filename,
\* from_file with add_segment, the callback.  t is "scan" or "observer".

\* existing = self.database.get_segment_by_filename(path.name)
HandlerLookup(t, FS) ==
    /\ ingest[t].pc = "lookup"
    /\ \E fault \in FS :
         ingest' =
           IF fault THEN [ingest EXCEPT ![t] = HandlerIdle,
                                        !.raised = @ \cup {ingest[t].filename}]
           ELSE IF get_segment_by_filename(rows, ingest[t].filename) # {}
             THEN [ingest EXCEPT ![t] = HandlerIdle,
                                 !.handled = @ \cup {ingest[t].filename}]
             ELSE [ingest EXCEPT ![t].pc = "add"]
    /\ UNCHANGED <<rows, nextId, now, lastCall, files, nextFile, events, queue,
                   worker, main, cleanup, crashes, max_retries, prefix_template,
                   exhausted, capture, transfers,
                   health, mtimes, shutdown, backoff,
                   status, segmenter, manager>>

\* segment = Segment.from_file(path); self.database.add_segment(segment)
\* (HandlerAddUncaught: the same with no except around it: the exception
\* leaves the call and ends the loop or thread that made it.)
HandlerAddUncaught(t, FS) ==
    /\ ingest[t].pc = "add"
    /\ \E fault \in FS :
         LET seg == from_file(ingest[t].filename, files, now)
             res == add_segment(rows, nextId, seg, fault)
         IN /\ rows' = res.rows
            /\ nextId' = res.nextId
            /\ ingest' =
                 IF res.raised
                   THEN [ingest EXCEPT ![t].pc = "raised",
                                       !.raised = @ \cup {ingest[t].filename}]
                 ELSE [ingest EXCEPT ![t].pc = "callback",
                                     ![t].segment = [seg EXCEPT !.id = res.id]]
    /\ UNCHANGED <<now, lastCall, files, nextFile, events, queue, worker, main,
                   cleanup, crashes, max_retries, prefix_template, exhausted,
                   capture, transfers,
                   health, mtimes, shutdown, backoff,
                   status, segmenter, manager>>
HandlerAdd(t, FS) ==
    /\ ingest[t].pc = "add"
    /\ \E fault \in FS :
         LET seg == from_file(ingest[t].filename, files, now)
             res == add_segment(rows, nextId, seg, fault)
         IN /\ rows' = res.rows
            /\ nextId' = res.nextId
            /\ ingest' =
                 IF res.raised
                   THEN [ingest EXCEPT ![t] = HandlerIdle,
                                       !.raised = @ \cup {ingest[t].filename}]
                 ELSE [ingest EXCEPT ![t].pc = "callback",
                                     ![t].segment = [seg EXCEPT !.id = res.id]]
    /\ UNCHANGED <<now, lastCall, files, nextFile, events, queue, worker, main,
                   cleanup, crashes, max_retries, prefix_template, exhausted,
                   capture, transfers,
                   health, mtimes, shutdown, backoff,
                   status, segmenter, manager>>

\* self.on_new_segment(segment): Pipeline._on_new_segment, queue_segment;
\* an exception of the callable is caught like any other.
HandlerCallback(t, FS) ==
    /\ ingest[t].pc = "callback"
    /\ \E fault \in FS :
         IF fault
           THEN /\ queue' = queue
                /\ ingest' = [ingest EXCEPT ![t] = HandlerIdle,
                                            !.raised = @ \cup {ingest[t].filename}]
           ELSE /\ queue' = Append(queue, ingest[t].segment)
                /\ ingest' = [ingest EXCEPT ![t] = HandlerIdle,
                                            !.handled = @ \cup {ingest[t].filename}]
    /\ UNCHANGED <<rows, nextId, now, lastCall, files, nextFile, events, worker,
                   main, cleanup, crashes, max_retries, prefix_template,
                   exhausted, capture, transfers,
                   health, mtimes, shutdown, backoff,
                   status, segmenter, manager>>

\* _process_existing_segments: the next path of the listing is handled; at
\* the end of the listing start() returns.
ScanNext ==
    /\ main.phase = "scan"
    /\ ingest.scan.pc = "idle"
    /\ IF main.scan = <<>>
         THEN /\ main' = [main EXCEPT !.phase = "running"]
              /\ UNCHANGED ingest
         ELSE /\ main' = [main EXCEPT !.scan = Tail(@)]
              /\ ingest' = [ingest EXCEPT
                   !.scan = [HandlerIdle EXCEPT !.pc = "lookup",
                                                !.filename = Head(main.scan)]]
    /\ UNCHANGED <<rows, nextId, now, lastCall, files, nextFile, events, queue,
                   worker, cleanup, crashes, max_retries, prefix_template,
                   exhausted, capture, transfers,
                   health, mtimes, shutdown, backoff,
                   status, segmenter, manager>>

\* SegmentEventHandler.on_created: the observer thread takes the next event
\* and, the settle delay over, handles the path if the file exists.
ObserverNext ==
    /\ Running
    /\ ingest.observer.pc = "idle"
    /\ events # <<>>
    /\ events' = Tail(events)
    /\ ingest' = IF files[Head(events)] > 0
                   THEN [ingest EXCEPT
                     !.observer = [HandlerIdle EXCEPT !.pc = "lookup",
                                                      !.filename = Head(events)]]
                   ELSE ingest
    /\ UNCHANGED <<rows, nextId, now, lastCall, files, nextFile, queue, worker,
                   main, cleanup, crashes, max_retries, prefix_template,
                   exhausted, capture, transfers,
                   health, mtimes, shutdown, backoff,
                   status, segmenter, manager>>

\* A chunk file appears in the watched directory (written by the capture
\* process, or by one a killed pipeline left behind): a created event.
FileAppears ==
    /\ Running
    /\ ingest.notified < MaxEvents
    /\ \E f \in Filenames, size \in FileSizes :
         /\ files[f] = 0
         /\ files' = [files EXCEPT ![f] = size]
         /\ events' = Append(events, f)
    /\ ingest' = [ingest EXCEPT !.notified = @ + 1]
    /\ UNCHANGED <<rows, nextId, now, lastCall, nextFile, queue, worker, main,
                   cleanup, crashes, max_retries, prefix_template, exhausted,
                   capture, transfers,
                   health, mtimes, shutdown, backoff,
                   status, segmenter, manager>>

\* One more created event for a file that is there (the same path notified
\* again).
NotifiedAgain ==
    /\ Running
    /\ ingest.notified < MaxEvents
    /\ \E f \in Filenames :
         /\ files[f] > 0
         /\ events' = Append(events, f)
    /\ ingest' = [ingest EXCEPT !.notified = @ + 1]
    /\ UNCHANGED <<rows, nextId, now, lastCall, files, nextFile, queue, worker,
                   main, cleanup, crashes, max_retries, prefix_template,
                   exhausted, capture, transfers,
                   health, mtimes, shutdown, backoff,
                   status, segmenter, manager>>

\* The state when start() has listed the directory: the observer runs, some
\* of the files there were listed, some have a created event pending (those
\* that appeared since the observer started), some both.
InitIngest ==
    /\ rows = {}
    /\ nextId = 1
    /\ now = StartMinute
    /\ lastCall = NoCall
    /\ max_retries = MaxRetries
    /\ prefix_template = DefaultTemplate
    /\ files \in [Filenames -> {0} \cup FileSizes]
    /\ nextFile = 1
    /\ \E listed \in SUBSET { f \in Filenames : files[f] > 0 } :
         main = [phase |-> "scan",
                 scan |-> SortedFiles([f \in Filenames |->
                                         IF f \in listed THEN files[f] ELSE 0])]
    /\ events \in {<<>>} \cup { <<f>> : f \in { g \in Filenames : files[g] > 0 } }
    /\ queue = <<>>
    /\ worker = WorkerIdle
    /\ cleanup = CleanupIdle
    /\ crashes = 0
    /\ exhausted = {}
    /\ transfers = [f \in Filenames |-> 0]
    /\ ingest = IngestIdle
    /\ health = HealthConstructed
    /\ mtimes = [f \in Filenames |-> NoneInt]
    /\ shutdown = NotRequested
    /\ backoff = BackoffIdle
    /\ status = NoStatus
    /\ segmenter = SegmenterConstructed
    /\ manager = ManagerConstructed
    /\ capture = SupervisorConstructed(MaxRestarts, restart_window_default)

NextIngest ==
    \/ ScanNext
    \/ ObserverNext
    \/ \E t \in {"scan", "observer"} : HandlerLookup(t, BOOLEAN)
    \/ \E t \in {"scan", "observer"} : HandlerAdd(t, BOOLEAN)
    \/ \E t \in {"scan", "observer"} : HandlerCallback(t, {FALSE})
    \/ FileAppears
    \/ NotifiedAgain

SpecIngest == InitIngest /\ [][NextIngest]_vars

\* Registration where every call made for one file, FaultyFile, may raise at
\* each of its steps and the calls for the other files raise nowhere (but in
\* add_segment for a filename that is already there).  The main thread runs
\* the for loop of _process_existing_segments and the observer thread
\* dispatches its events one after the other, hence the weak fairness of the
\* steps of each.
FaultyFile == 1
FaultsFor(t) == IF ingest[t].filename = FaultyFile THEN BOOLEAN ELSE {FALSE}

ScanThread ==
    \/ ScanNext
    \/ HandlerLookup("scan", FaultsFor("scan"))
    \/ HandlerAdd("scan", FaultsFor("scan"))
    \/ HandlerCallback("scan", FaultsFor("scan"))

ObserverThread ==
    \/ ObserverNext
    \/ HandlerLookup("observer", FaultsFor("observer"))
    \/ HandlerAdd("observer", FaultsFor("observer"))
    \/ HandlerCallback("observer", FaultsFor("observer"))

NextContained ==
    \/ ScanThread
    \/ ObserverThread
    \/ FileAppears
    \/ NotifiedAgain

SpecContained ==
    /\ InitIngest
    /\ [][NextContained]_vars
    /\ WF_vars(ScanThread)
    /\ WF_vars(ObserverThread)

\* ------------------------------------------- the pipeline without faults
\* The store raises nothing, the process is not killed, and a transfer
\* either succeeds or raises a ClientError.  A chunk file left by an earlier
\* run may already be in the directory at startup.  The main thread, the
\* observer thread, the upload worker and the cleanup thread each run in a
\* loop of their own and the clock advances, hence the weak fairness of
\* their steps; the capture process need not write anything.
LiveOutcomes == {"ok", "transfer_error"}

InitLive ==
    /\ rows = {}
    /\ nextId = 1
    /\ now = StartMinute
    /\ lastCall = NoCall
    /\ max_retries \in 0..MaxRetries
    /\ prefix_template \in {DefaultTemplate, DatedTemplate}
    /\ \E size \in FileSizes \cup {0} :
         /\ files = [f \in Filenames |-> IF f = 1 THEN size ELSE 0]
         /\ nextFile = IF size = 0 THEN 1 ELSE 2
    /\ events = <<>>
    /\ queue = <<>>
    /\ worker = WorkerIdle
    /\ main = MainStart
    /\ cleanup = CleanupIdle
    /\ crashes = 0
    /\ exhausted = {}
    /\ transfers = [f \in Filenames |-> 0]
    /\ ingest = IngestIdle
    /\ health = HealthConstructed
    /\ mtimes = [f \in Filenames |-> NoneInt]
    /\ shutdown = NotRequested
    /\ backoff = BackoffIdle
    /\ status = NoStatus
    /\ segmenter = SegmenterConstructed
    /\ manager = ManagerConstructed
    /\ capture = SupervisorConstructed(MaxRestarts, restart_window_default)

NextLive ==
    \/ CaptureWrite
    \/ WatchEvent({FALSE})
    \/ WorkerDequeue
    \/ WorkerAttempt({FALSE})
    \/ WorkerTransfer({FALSE}, LiveOutcomes)
    \/ WorkerFail({FALSE})
    \/ CleanupStart({FALSE})
    \/ CleanupNormalStep({FALSE})
    \/ CleanupCheckDisk({FALSE})
    \/ CleanupEmergencyStep({FALSE})
    \/ CleanupEmergencyCheck
    \/ CleanupPurge({FALSE})
    \/ MainReset({FALSE})
    \/ MainScanStep({FALSE})
    \/ Tick(MaxLiveTime)

\* The steps of one thread; at most one of them is enabled at a time.
WorkerStep ==
    \/ WorkerDequeue
    \/ WorkerAttempt({FALSE})
    \/ WorkerTransfer({FALSE}, LiveOutcomes)
    \/ WorkerFail({FALSE})

CleanupStep ==
    \/ CleanupStart({FALSE})
    \/ CleanupNormalStep({FALSE})
    \/ CleanupCheckDisk({FALSE})
    \/ CleanupEmergencyStep({FALSE})
    \/ CleanupEmergencyCheck
    \/ CleanupPurge({FALSE})

MainStep ==
    \/ MainReset({FALSE})
    \/ MainScanStep({FALSE})

SpecLive ==
    /\ InitLive
    /\ [][NextLive]_vars
    /\ WF_vars(MainStep)
    /\ WF_vars(WatchEvent({FALSE}))
    /\ WF_vars(WorkerStep)
    /\ WF_vars(CleanupStep)
    /\ WF_vars(Tick(MaxLiveTime))

\* The fair pipeline with a restart: the process may be killed and started
\* again (Crash), after which Pipeline.start runs again from the reset.  The
\* threads are scheduled as in SpecLive; the kill itself is not required to
\* happen.
NextRecover ==
    \/ CaptureWrite
    \/ WatchEvent({FALSE})
    \/ WorkerDequeue
    \/ WorkerAttempt({FALSE})
    \/ WorkerTransfer({FALSE}, LiveOutcomes)
    \/ WorkerFail({FALSE})
    \/ CleanupStart({FALSE})
    \/ CleanupNormalStep({FALSE})
    \/ CleanupCheckDisk({FALSE})
    \/ CleanupEmergencyStep({FALSE})
    \/ CleanupEmergencyCheck
    \/ CleanupPurge({FALSE})
    \/ MainReset({FALSE})
    \/ MainScanStep({FALSE})
    \/ Tick(MaxLiveTime)
    \/ Crash

SpecRecover ==
    /\ InitLive
    /\ [][NextRecover]_vars
    /\ WF_vars(MainStep)
    /\ WF_vars(WatchEvent({FALSE}))
    /\ WF_vars(WorkerStep)
    /\ WF_vars(CleanupStep)
    /\ WF_vars(Tick(MaxLiveTime))

\* The pipeline with a cleanup thread whose unlink and store calls may
\* fail, and no other fault.
NextRetention ==
    \/ CaptureWrite
    \/ WatchEvent({FALSE})
    \/ WorkerDequeue
    \/ WorkerAttempt({FALSE})
    \/ WorkerTransfer({FALSE}, LiveOutcomes)
    \/ WorkerFail({FALSE})
    \/ CleanupStart(BOOLEAN)
    \/ PerformCleanupTurn(BOOLEAN, BOOLEAN)
    \/ CleanupCheckDisk(BOOLEAN)
    \/ EmergencyCleanupTurn(BOOLEAN, BOOLEAN)
    \/ CleanupEmergencyCheck
    \/ CleanupPurge(BOOLEAN)
    \/ MainReset({FALSE})
    \/ MainScanStep({FALSE})
    \/ Tick(MaxLiveTime)

SpecRetention == InitLive /\ [][NextRetention]_vars

\* ------------------------------------------------- the capture supervisor
\* SegmenterManager of capture/segmenter.py, with an ffmpeg process that may
\* exit at any time and whose start may fail.
RestartWindows == {10, 30}

\* SegmenterManager.start: the first Segmenter is started, then the monitor
\* thread.  An exception of Segmenter.start leaves start() before the thread
\* is created.
SupervisorStart ==
    /\ capture.monitor = "none"
    /\ ~capture.should_run
    /\ \E started \in BOOLEAN :
         capture' = [capture EXCEPT
            !.should_run = TRUE, !.restart_count = 0, !.has_segmenter = TRUE,
            !.alive = started,
            !.monitor = IF started THEN "running" ELSE "none",
            !.window_start = capture.clock,
            !.up_since = capture.clock]
    /\ UNCHANGED <<rows, nextId, now, lastCall, files, nextFile, events, queue,
                   worker, main, cleanup, crashes, max_retries, prefix_template,
                   exhausted, transfers, ingest,
                   health, mtimes, shutdown, backoff,
                   status, segmenter, manager>>

\* The ffmpeg process exits.
ProcessExit ==
    /\ capture.alive
    /\ capture' = [capture EXCEPT !.alive = FALSE]
    /\ UNCHANGED <<rows, nextId, now, lastCall, files, nextFile, events, queue,
                   worker, main, cleanup, crashes, max_retries, prefix_template,
                   exhausted, transfers, ingest,
                   health, mtimes, shutdown, backoff,
                   status, segmenter, manager>>

\* time.time() - window_start > restart_window
WindowPassed(clock, windowStart, restartWindow) ==
    clock - windowStart > restartWindow

\* self._restart_count >= max_restarts
QuotaReachedLate(count, maxRestarts) == count > maxRestarts
QuotaReached(count, maxRestarts) == count >= maxRestarts

\* One turn of the while loop of _monitor_loop: the sleep, the window test,
\* the test of the process, and the restart or the exit on the quota.  A
\* Segmenter.start that raises is followed by a second sleep.
MonitorPoll ==
    /\ capture.monitor = "running"
    /\ capture.should_run
    /\ capture.clock + 2 * PollSeconds <= MaxClock
    /\ LET t == capture.clock + PollSeconds
           passed == WindowPassed(t, capture.window_start, capture.restart_window)
           count == IF passed THEN 0 ELSE capture.restart_count
           c1 == [capture EXCEPT
                    !.clock = t,
                    !.restart_count = count,
                    !.window_start = IF passed THEN t ELSE @,
                    !.restarts = IF passed THEN 0 ELSE @,
                    !.polls = (IF passed THEN 0 ELSE @) + 1,
                    !.deaths = IF passed THEN 0 ELSE @]
           dead == capture.has_segmenter /\ ~capture.alive
       IN IF ~dead
            THEN capture' = c1
            ELSE IF QuotaReached(count, capture.max_restarts)
              THEN capture' = [c1 EXCEPT !.deaths = @ + 1, !.should_run = FALSE,
                                         !.monitor = "exited", !.quota_stop = TRUE]
              ELSE \E started \in BOOLEAN :
                     capture' = [c1 EXCEPT
                        !.deaths = @ + 1,
                        !.restart_count = @ + 1,
                        !.restarts = @ + 1,
                        !.alive = started,
                        !.started_at = IF started THEN Append(@, t) ELSE @,
                        !.up_since = IF started THEN t ELSE @,
                        !.clock = IF started THEN @ ELSE @ + PollSeconds]
    /\ UNCHANGED <<rows, nextId, now, lastCall, files, nextFile, events, queue,
                   worker, main, cleanup, crashes, max_retries, prefix_template,
                   exhausted, transfers, ingest,
                   health, mtimes, shutdown, backoff,
                   status, segmenter, manager>>

\* The loop test after stop() has cleared _should_run.
MonitorExit ==
    /\ capture.monitor = "running"
    /\ ~capture.should_run
    /\ capture' = [capture EXCEPT !.monitor = "exited"]
    /\ UNCHANGED <<rows, nextId, now, lastCall, files, nextFile, events, queue,
                   worker, main, cleanup, crashes, max_retries, prefix_template,
                   exhausted, transfers, ingest,
                   health, mtimes, shutdown, backoff,
                   status, segmenter, manager>>

\* SegmenterManager.stop
SupervisorStop ==
    /\ capture.should_run
    /\ capture' = [capture EXCEPT !.should_run = FALSE, !.alive = FALSE,
                                  !.has_segmenter = FALSE]
    /\ UNCHANGED <<rows, nextId, now, lastCall, files, nextFile, events, queue,
                   worker, main, cleanup, crashes, max_retries, prefix_template,
                   exhausted, transfers, ingest,
                   health, mtimes, shutdown, backoff,
                   status, segmenter, manager>>

InitCapture ==
    /\ rows = {}
    /\ nextId = 1
    /\ now = StartMinute
    /\ lastCall = NoCall
    /\ max_retries = MaxRetries
    /\ prefix_template = DefaultTemplate
    /\ files = [f \in Filenames |-> 0]
    /\ nextFile = 1
    /\ events = <<>>
    /\ queue = <<>>
    /\ worker = WorkerIdle
    /\ main = MainStart
    /\ cleanup = CleanupIdle
    /\ crashes = 0
    /\ exhausted = {}
    /\ transfers = [f \in Filenames |-> 0]
    /\ ingest = IngestIdle
    /\ health = HealthConstructed
    /\ mtimes = [f \in Filenames |-> NoneInt]
    /\ shutdown = NotRequested
    /\ backoff = BackoffIdle
    /\ status = NoStatus
    /\ segmenter = SegmenterConstructed
    /\ manager = ManagerConstructed
    /\ \E maxRestarts \in 0..MaxRestarts, restartWindow \in RestartWindows :
         capture = SupervisorConstructed(maxRestarts, restartWindow)

NextCapture ==
    \/ SupervisorStart
    \/ ProcessExit
    \/ MonitorPoll
    \/ MonitorExit
    \/ SupervisorStop

SpecCapture == InitCapture /\ [][NextCapture]_vars

\* ------------------------------------------------------ the health checker
\* HealthChecker of capture/health_check.py next to the capture supervisor,
\* on the supervisor's clock.  The ffmpeg process writes chunk files while
\* it runs; a check is made at any time (check_interval apart in a run).

\* SegmenterManager.is_running
is_running == capture.has_segmenter /\ capture.alive

\* The largest st_mtime among the .ts files, None without files.
NewestMtime(fs, mt) ==
    IF \A f \in Filenames : fs[f] = 0 THEN NoneInt
    ELSE CHOOSE m \in { mt[f] : f \in { g \in Filenames : fs[g] > 0 } } :
           \A f \in Filenames : fs[f] > 0 => mt[f] <= m

\* HealthChecker._is_stale: no last_segment_time is not stale.
is_stale(last, t) ==
    IF last = NoneInt THEN FALSE ELSE t - last > stale_threshold

\* One turn of _check_loop: _perform_check with _check_segments, _is_stale
\* and _report_issue.  raced: a .ts file listed by glob is gone when stat()
\* is called on it; the exception leaves _perform_check and is logged by
\* _check_loop.
\* (HealthCheckRestarts: the same with a capture found down started again.)
HealthCheckRestarts(RS) ==
    /\ health.checks < MaxChecks
    /\ health' = [health EXCEPT !.checks = @ + 1,
                                !.capture_running = is_running,
                                !.ffmpeg_restarts = capture.restart_count]
    /\ capture' = IF is_running THEN capture
                  ELSE [capture EXCEPT !.has_segmenter = TRUE, !.alive = TRUE,
                                       !.restart_count = @ + 1]
    /\ UNCHANGED <<rows, nextId, now, lastCall, files, nextFile, events, queue,
                   worker, main, cleanup, crashes, max_retries, prefix_template,
                   exhausted, transfers, ingest, mtimes, shutdown, backoff,
                   status, segmenter, manager>>
HealthCheck(RS) ==
    /\ health.checks < MaxChecks
    /\ \E raced \in RS :
         LET t == capture.clock
             newest == NewestMtime(files, mtimes)
             newer == /\ newest # NoneInt
                      /\ \/ health.last_segment_time = NoneInt
                         \/ newest > health.last_segment_time
             h1 == [health EXCEPT !.checks = @ + 1,
                                  !.capture_running = is_running,
                                  !.ffmpeg_restarts = capture.restart_count]
             h2 == [h1 EXCEPT
                      !.last_segment_time = IF newer THEN newest ELSE @,
                      !.status_last_segment_time = IF newer THEN newest ELSE @,
                      !.last_segment_count =
                         Cardinality({ f \in Filenames : files[f] > 0 })]
         IN health' =
              IF raced /\ newest # NoneInt THEN h1
              ELSE IF ~h2.capture_running
                THEN [h2 EXCEPT !.issues = Append(@, "Capture process not running")]
              ELSE IF is_stale(h2.last_segment_time, t)
                THEN [h2 EXCEPT !.issues = Append(@, "Stale segments")]
              ELSE h2
    /\ UNCHANGED <<rows, nextId, now, lastCall, files, nextFile, events, queue,
                   worker, main, cleanup, crashes, max_retries, prefix_template,
                   exhausted, capture, transfers, ingest, mtimes, shutdown,
                   backoff,
                   status, segmenter, manager>>

\* The running ffmpeg process closes a chunk file (of ChunkSize MB: the
\* checker does not read sizes).
ChunkWritten ==
    /\ capture.alive
    /\ nextFile <= MaxFiles
    /\ files' = [files EXCEPT ![nextFile] = ChunkSize]
    /\ mtimes' = [mtimes EXCEPT ![nextFile] = capture.clock]
    /\ nextFile' = nextFile + 1
    /\ UNCHANGED <<rows, nextId, now, lastCall, events, queue, worker, main,
                   cleanup, crashes, max_retries, prefix_template, exhausted,
                   capture, transfers, ingest, health, shutdown, backoff,
                   status, segmenter, manager>>

\* Time passes while no monitor thread runs (a running monitor polls every
\* PollSeconds: MonitorPoll).
TimePasses ==
    /\ capture.monitor # "running"
    /\ capture.clock + PollSeconds <= MaxClock
    /\ capture' = [capture EXCEPT !.clock = @ + PollSeconds]
    /\ UNCHANGED <<rows, nextId, now, lastCall, files, nextFile, events, queue,
                   worker, main, cleanup, crashes, max_retries, prefix_template,
                   exhausted, transfers, ingest, health, mtimes, shutdown,
                   backoff,
                   status, segmenter, manager>>

InitHealth ==
    /\ rows = {}
    /\ nextId = 1
    /\ now = StartMinute
    /\ lastCall = NoCall
    /\ max_retries = MaxRetries
    /\ prefix_template = DefaultTemplate
    /\ InitPipe

NextHealth ==
    \/ SupervisorStart
    \/ ProcessExit
    \/ MonitorPoll
    \/ ChunkWritten
    \/ TimePasses
    \/ HealthCheck(BOOLEAN)

SpecHealth == InitHealth /\ [][NextHealth]_vars

\* --------------------------------------------------------------- shutdown
\* S3Uploader.stop: self._stop_event.set() (the join that follows waits at
\* most 10 s and changes nothing).  The worker reads the event in the test of
\* the while of _upload_loop only: _upload_with_retry and its time.sleep do
\* not read it.  at, in_flight: the calls of _upload_file made so far, and
\* whether the worker holds a segment, when the event is set.
UploaderStop ==
    /\ Running
    /\ ~shutdown.requested
    /\ shutdown' = [requested |-> TRUE, at |-> transfers,
                    in_flight |-> worker.pc \in {"loop", "transfer"},
                    held |-> worker.segment.filename]
    /\ UNCHANGED <<rows, nextId, now, lastCall, files, nextFile, events, queue,
                   worker, main, cleanup, crashes, max_retries, prefix_template,
                   exhausted, capture, transfers, ingest, health, mtimes,
                   backoff,
                   status, segmenter, manager>>

\* The upload side of the pipeline with a stop at any time.
NextStop ==
    \/ CaptureWrite
    \/ WatchEvent({FALSE})
    \/ MainReset({FALSE})
    \/ MainScanStep({FALSE})
    \/ WorkerDequeue
    \/ WorkerAttempt({FALSE})
    \/ WorkerTransfer({FALSE}, LiveOutcomes)
    \/ WorkerFail({FALSE})
    \/ UploaderStop

SpecStop == InitLive /\ [][NextStop]_vars

\* ---------------------------------------------------------- health status
\* HealthStatus.is_healthy; disk_usage_mb < disk_limit_mb * 0.9 is computed
\* here in tenths (the two agree on the whole numbers of MB used below).
\* (is_healthy_up_to_limit: the same with <= for <.)
is_healthy_up_to_limit(st) ==
    /\ st.capture_running
    /\ st.upload_running
    /\ 10 * st.disk_usage_mb <= 9 * st.disk_limit_mb
is_healthy(st) ==
    /\ st.capture_running
    /\ st.upload_running
    /\ 10 * st.disk_usage_mb < 9 * st.disk_limit_mb

\* Pipeline._get_health_status without the HLS server: the flags of the
\* components, the counters, the usage of the buffer directory and the
\* configured limit.
get_health_status ==
    [HealthStatus EXCEPT
       !.capture_running = is_running,
       !.upload_running = Running,
       !.last_segment_time = health.last_segment_time,
       !.ffmpeg_restarts = capture.restart_count,
       !.upload_errors = worker.error_count,
       !.segments_pending = count_by_state(rows, CREATED),
       !.disk_usage_mb = DiskUsage(files),
       !.disk_limit_mb = max_disk_usage_mb]

\* The values a caller builds a HealthStatus from, in MB.
DiskUsages == {0, 8, 9, 10, 100, 899, 900, 950}
DiskLimits == {0, 10, 1000}

\* HealthStatus(capture_running=..., upload_running=..., disk_usage_mb=...,
\* disk_limit_mb=...)
StatusBuilt ==
    /\ status = NoStatus
    /\ segmenter = SegmenterConstructed
    /\ manager = ManagerConstructed
    /\ \E c \in BOOLEAN, u \in BOOLEAN, usage \in DiskUsages, limit \in DiskLimits :
         status' = [NoStatus EXCEPT
                      !.st = [HealthStatus EXCEPT !.capture_running = c,
                                                  !.upload_running = u,
                                                  !.disk_usage_mb = usage,
                                                  !.disk_limit_mb = limit]]
    /\ UNCHANGED <<rows, nextId, now, lastCall, files, nextFile, events, queue,
                   worker, main, cleanup, crashes, max_retries, prefix_template,
                   exhausted, capture, transfers, ingest, health, mtimes,
                   shutdown, backoff, segmenter, manager>>

\* HealthStatus.to_dict: 'healthy': self.is_healthy
StatusToDict ==
    /\ ~status.reported
    /\ status' = [status EXCEPT !.reported = TRUE,
                                !.healthy = is_healthy(status.st)]
    /\ UNCHANGED <<rows, nextId, now, lastCall, files, nextFile, events, queue,
                   worker, main, cleanup, crashes, max_retries, prefix_template,
                   exhausted, capture, transfers, ingest, health, mtimes,
                   shutdown, backoff, segmenter, manager>>

NextStatus ==
    \/ StatusBuilt
    \/ StatusToDict

SpecStatus == InitHealth /\ [][NextStatus]_vars

\* ---------------------------------------------------------------- backoff
\* _upload_with_retry on its own, for a segment that has made no attempt,
\* with any configured s3.retry_delay and s3.max_retries (the configuration
\* is not validated: utils/config.py checks neither).
BaseDelays == {0, 1, 5, 30, 59, 60, 61, 100}

\* delay = self.retry_delay
RetryBegin ==
    /\ backoff.pc = "idle"
    /\ \E base \in BaseDelays, budget \in 0..MaxBudget :
         backoff' = [BackoffIdle EXCEPT !.pc = "loop", !.base = base,
                                        !.max_retries = budget,
                                        !.delay = base]
    /\ UNCHANGED <<rows, nextId, now, lastCall, files, nextFile, events, queue,
                   worker, main, cleanup, crashes, max_retries, prefix_template,
                   exhausted, capture, transfers, ingest, health, mtimes,
                   shutdown, status, segmenter, manager>>

\* One turn of the while of _upload_with_retry: the loop test, mark_uploading,
\* the transfer, and after a ClientError/BotoCoreError the sleep and the
\* doubling of delay when attempts are left.
RetryTurn(outcomes) ==
    /\ backoff.pc = "loop"
    /\ IF ~CanAttempt(backoff, backoff.max_retries)
         THEN backoff' = [backoff EXCEPT !.pc = "exhausted"]
         ELSE \E outcome \in outcomes :
                LET b == [backoff EXCEPT !.upload_attempts = @ + 1]
                IN backoff' =
                     IF outcome = "ok" THEN [b EXCEPT !.pc = "returned"]
                     ELSE IF CanAttempt(b, b.max_retries)
                       THEN [b EXCEPT !.slept = Append(@, b.delay),
                                      !.delay = NextDelay(@)]
                     ELSE b
    /\ UNCHANGED <<rows, nextId, now, lastCall, files, nextFile, events, queue,
                   worker, main, cleanup, crashes, max_retries, prefix_template,
                   exhausted, capture, transfers, ingest, health, mtimes,
                   shutdown, status, segmenter, manager>>

NextBackoff ==
    \/ RetryBegin
    \/ RetryTurn(LiveOutcomes)

SpecBackoff == InitHealth /\ [][NextBackoff]_vars

\* ------------------------------------------------- the ffmpeg process object
\* Segmenter.start and Segmenter.stop (both under self._lock) with the ffmpeg
\* process they hold.

\* Segmenter.start: SegmentationError when already running or when Popen
\* fails; else the process is started and _running set.
SegmenterStart ==
    /\ segmenter.starts < MaxStarts
    /\ \E popen_fails \in BOOLEAN :
         segmenter' =
           IF segmenter.running \/ popen_fails
             THEN [segmenter EXCEPT !.starts = @ + 1]
             ELSE [segmenter EXCEPT !.starts = @ + 1, !.running = TRUE,
                                    !.process = TRUE, !.os = "running"]
    /\ UNCHANGED <<rows, nextId, now, lastCall, files, nextFile, events, queue,
                   worker, main, cleanup, crashes, max_retries, prefix_template,
                   exhausted, capture, transfers, ingest, health, mtimes,
                   shutdown, backoff, status, manager>>

\* The ffmpeg process ends by itself (the camera is gone, it crashed).
FfmpegExits ==
    /\ segmenter.os = "running"
    /\ segmenter' = [segmenter EXCEPT !.os = "exited"]
    /\ UNCHANGED <<rows, nextId, now, lastCall, files, nextFile, events, queue,
                   worker, main, cleanup, crashes, max_retries, prefix_template,
                   exhausted, capture, transfers, ingest, health, mtimes,
                   shutdown, backoff, status, manager>>

\* The body of the try of Segmenter.stop for a process that is os when the
\* call begins.  interrupt: what killpg(SIGINT) does ("sent", "lookup": the
\* process is gone, ProcessLookupError, "error": any other exception);
\* responds: the process exits within the timeout; kill: what
\* killpg(SIGKILL) does.  Returns what was done and the process at the end.
StopTry(os, interrupt, responds, kill) ==
    IF interrupt = "lookup"
      THEN [NoStop EXCEPT !.called = TRUE, !.was = os, !.error = "lookup"]
    ELSE IF interrupt = "error"
      THEN [NoStop EXCEPT !.called = TRUE, !.was = os, !.error = "logged"]
    ELSE IF os = "exited" \/ responds
      THEN [NoStop EXCEPT !.called = TRUE, !.was = os,
                          !.signals = <<"SIGINT">>, !.waits = <<"timeout">>]
    ELSE IF kill = "lookup"
      THEN [NoStop EXCEPT !.called = TRUE, !.was = os,
                          !.signals = <<"SIGINT">>, !.waits = <<"timeout">>,
                          !.alive_at_timeout = TRUE, !.error = "lookup"]
    ELSE IF kill = "error"
      THEN [NoStop EXCEPT !.called = TRUE, !.was = os,
                          !.signals = <<"SIGINT">>, !.waits = <<"timeout">>,
                          !.alive_at_timeout = TRUE, !.error = "logged"]
    ELSE [NoStop EXCEPT !.called = TRUE, !.was = os,
                        !.signals = <<"SIGINT", "SIGKILL">>,
                        !.waits = <<"timeout", "unconditional">>,
                        !.alive_at_timeout = TRUE]

\* The process after the try: gone when it was gone, when it answered the
\* interrupt or when it was killed and waited for; an exception of killpg
\* leaves it as it was.
StopOs(os, done) ==
    IF os = "exited" THEN "exited"
    ELSE IF done.error = "none" THEN "exited"
    ELSE IF done.error = "lookup" THEN "exited"
    ELSE os

\* Segmenter.stop(timeout): return at once when not running; else the try
\* and, in its finally, _running = False and _process = None.
\* (SegmenterStopNoFinally: the same with the two assignments at the end of
\* the try, where an exception skips them.)
SegmenterStopNoFinally ==
    /\ \E interrupt \in {"sent", "lookup", "error"}, responds \in BOOLEAN,
          kill \in {"sent", "lookup", "error"} :
         IF ~segmenter.running \/ ~segmenter.process
           THEN segmenter' = [segmenter EXCEPT
                                !.stop = [NoStop EXCEPT !.called = TRUE,
                                                        !.returned_early = TRUE,
                                                        !.was = segmenter.os]]
           ELSE /\ interrupt = "lookup" => segmenter.os = "exited"
                /\ LET done == StopTry(segmenter.os, interrupt, responds, kill)
                   IN segmenter' = [segmenter EXCEPT
                        !.stop = done,
                        !.os = StopOs(segmenter.os, done),
                        !.running = IF done.error = "none" THEN FALSE ELSE @,
                        !.process = IF done.error = "none" THEN FALSE ELSE @]
    /\ UNCHANGED <<rows, nextId, now, lastCall, files, nextFile, events, queue,
                   worker, main, cleanup, crashes, max_retries, prefix_template,
                   exhausted, capture, transfers, ingest, health, mtimes,
                   shutdown, backoff, status, manager>>
SegmenterStop ==
    /\ \E interrupt \in {"sent", "lookup", "error"}, responds \in BOOLEAN,
          kill \in {"sent", "lookup", "error"} :
         IF ~segmenter.running \/ ~segmenter.process
           THEN segmenter' = [segmenter EXCEPT
                                !.stop = [NoStop EXCEPT !.called = TRUE,
                                                        !.returned_early = TRUE,
                                                        !.was = segmenter.os]]
           ELSE /\ interrupt = "lookup" => segmenter.os = "exited"
                /\ LET done == StopTry(segmenter.os, interrupt, responds, kill)
                   IN segmenter' = [segmenter EXCEPT
                        !.stop = done,
                        !.os = StopOs(segmenter.os, done),
                        !.running = FALSE,
                        !.process = FALSE]
    /\ UNCHANGED <<rows, nextId, now, lastCall, files, nextFile, events, queue,
                   worker, main, cleanup, crashes, max_retries, prefix_template,
                   exhausted, capture, transfers, ingest, health, mtimes,
                   shutdown, backoff, status, manager>>

NextSegmenter ==
    \/ SegmenterStart
    \/ FfmpegExits
    \/ SegmenterStop

SpecSegmenter == InitHealth /\ [][NextSegmenter]_vars

\* ----------------------------------- the supervisor's stop and its monitor
\* SegmenterManager.stop next to _monitor_loop, statement by statement: the
\* two threads share _should_run and the attribute segmenter without a lock;
\* Segmenter.start, Segmenter.stop and Segmenter.is_running each run under
\* the Segmenter's own lock and are one step.  The run is shorter than
\* restart_window, so the restart counter is not reset.

\* SegmenterManager.start: a Segmenter is created and started and the monitor
\* thread is started; max_restarts is read by the thread when it begins.  A
\* Segmenter.start that raises leaves start() before the thread exists.
ManagerStart ==
    /\ manager.created = 0
    /\ \E started \in BOOLEAN, maxRestarts \in 0..MaxRestarts :
         manager' = [manager EXCEPT
            !.should_run = TRUE, !.restart_count = 0,
            !.max_restarts = maxRestarts,
            !.segmenter = 1, !.created = 1,
            !.objs[1] = [running |-> started, alive |-> started],
            !.mpc = IF started THEN "while" ELSE "none"]
    /\ UNCHANGED <<rows, nextId, now, lastCall, files, nextFile, events, queue,
                   worker, main, cleanup, crashes, max_retries, prefix_template,
                   exhausted, capture, transfers, ingest,
                   health, mtimes, shutdown, backoff,
                   status, segmenter>>

\* An ffmpeg process exits on its own.
FfmpegDies ==
    /\ \E o \in Objects :
         /\ manager.objs[o].alive
         /\ manager' = [manager EXCEPT !.objs[o].alive = FALSE]
    /\ UNCHANGED <<rows, nextId, now, lastCall, files, nextFile, events, queue,
                   worker, main, cleanup, crashes, max_retries, prefix_template,
                   exhausted, capture, transfers, ingest,
                   health, mtimes, shutdown, backoff,
                   status, segmenter>>

\* while self._should_run:
MonitorWhile ==
    /\ manager.mpc = "while"
    /\ manager' = [manager EXCEPT
          !.mpc = IF manager.should_run THEN "sleep" ELSE "exited"]
    /\ UNCHANGED <<rows, nextId, now, lastCall, files, nextFile, events, queue,
                   worker, main, cleanup, crashes, max_retries, prefix_template,
                   exhausted, capture, transfers, ingest,
                   health, mtimes, shutdown, backoff,
                   status, segmenter>>

\* time.sleep(5), then: if not self._should_run: break
MonitorSleep ==
    /\ manager.mpc = "sleep"
    /\ manager' = [manager EXCEPT
          !.mpc = IF manager.should_run THEN "test" ELSE "exited"]
    /\ UNCHANGED <<rows, nextId, now, lastCall, files, nextFile, events, queue,
                   worker, main, cleanup, crashes, max_retries, prefix_template,
                   exhausted, capture, transfers, ingest,
                   health, mtimes, shutdown, backoff,
                   status, segmenter>>

\* if self.segmenter and ...: the first operand.
MonitorTest ==
    /\ manager.mpc = "test"
    /\ manager' = [manager EXCEPT
          !.mpc = IF manager.segmenter = 0 THEN "while" ELSE "is_running"]
    /\ UNCHANGED <<rows, nextId, now, lastCall, files, nextFile, events, queue,
                   worker, main, cleanup, crashes, max_retries, prefix_template,
                   exhausted, capture, transfers, ingest,
                   health, mtimes, shutdown, backoff,
                   status, segmenter>>

\* ... not self.segmenter.is_running: the attribute is read again (None has
\* no is_running: the AttributeError ends the thread), then
\* Segmenter.is_running.
MonitorIsRunning ==
    /\ manager.mpc = "is_running"
    /\ manager' = [manager EXCEPT
          !.mpc = IF manager.segmenter = 0 THEN "raised"
                  ELSE IF /\ manager.objs[manager.segmenter].running
                          /\ manager.objs[manager.segmenter].alive
                         THEN "while"
                         ELSE "exit_code"]
    /\ UNCHANGED <<rows, nextId, now, lastCall, files, nextFile, events, queue,
                   worker, main, cleanup, crashes, max_retries, prefix_template,
                   exhausted, capture, transfers, ingest,
                   health, mtimes, shutdown, backoff,
                   status, segmenter>>

\* exit_code = self.segmenter.get_exit_code()
MonitorExitCode ==
    /\ manager.mpc = "exit_code"
    /\ manager' = [manager EXCEPT
          !.mpc = IF manager.segmenter = 0 THEN "raised" ELSE "quota"]
    /\ UNCHANGED <<rows, nextId, now, lastCall, files, nextFile, events, queue,
                   worker, main, cleanup, crashes, max_retries, prefix_template,
                   exhausted, capture, transfers, ingest,
                   health, mtimes, shutdown, backoff,
                   status, segmenter>>

\* if self._restart_count >= max_restarts: stop for good; else count the
\* restart.
MonitorQuota ==
    /\ manager.mpc = "quota"
    /\ manager' = IF QuotaReached(manager.restart_count, manager.max_restarts)
                    THEN [manager EXCEPT !.should_run = FALSE, !.mpc = "exited"]
                    ELSE [manager EXCEPT !.restart_count = @ + 1,
                                         !.mpc = "new"]
    /\ UNCHANGED <<rows, nextId, now, lastCall, files, nextFile, events, queue,
                   worker, main, cleanup, crashes, max_retries, prefix_template,
                   exhausted, capture, transfers, ingest,
                   health, mtimes, shutdown, backoff,
                   status, segmenter>>

\* self.segmenter = Segmenter(self.config, self.on_segment_created)
MonitorNewSegmenter ==
    /\ manager.mpc = "new"
    /\ manager.created + 1 \in Objects
    /\ manager' = [manager EXCEPT !.created = @ + 1,
                                  !.segmenter = manager.created + 1,
                                  !.mpc = "start"]
    /\ UNCHANGED <<rows, nextId, now, lastCall, files, nextFile, events, queue,
                   worker, main, cleanup, crashes, max_retries, prefix_template,
                   exhausted, capture, transfers, ingest,
                   health, mtimes, shutdown, backoff,
                   status, segmenter>>

\* self.segmenter.start() inside the try: the attribute is read again; an
\* exception (of None, or of a start that fails) is logged and followed by
\* a sleep.
MonitorStartSegmenter ==
    /\ manager.mpc = "start"
    /\ IF manager.segmenter = 0
         THEN manager' = [manager EXCEPT !.mpc = "while"]
         ELSE \E started \in BOOLEAN :
                manager' = [manager EXCEPT
                   !.objs[manager.segmenter] =
                       [running |-> started, alive |-> started],
                   !.mpc = "while"]
    /\ UNCHANGED <<rows, nextId, now, lastCall, files, nextFile, events, queue,
                   worker, main, cleanup, crashes, max_retries, prefix_template,
                   exhausted, capture, transfers, ingest,
                   health, mtimes, shutdown, backoff,
                   status, segmenter>>

\* SegmenterManager.stop: self._should_run = False
ManagerStopFlag ==
    /\ manager.created > 0
    /\ manager.spc = "none"
    /\ manager' = [manager EXCEPT !.should_run = FALSE, !.spc = "test"]
    /\ UNCHANGED <<rows, nextId, now, lastCall, files, nextFile, events, queue,
                   worker, main, cleanup, crashes, max_retries, prefix_template,
                   exhausted, capture, transfers, ingest,
                   health, mtimes, shutdown, backoff,
                   status, segmenter>>

\* if self.segmenter:
ManagerStopTest ==
    /\ manager.spc = "test"
    /\ manager' = [manager EXCEPT
          !.spc = IF manager.segmenter = 0 THEN "returned" ELSE "stop"]
    /\ UNCHANGED <<rows, nextId, now, lastCall, files, nextFile, events, queue,
                   worker, main, cleanup, crashes, max_retries, prefix_template,
                   exhausted, capture, transfers, ingest,
                   health, mtimes, shutdown, backoff,
                   status, segmenter>>

\* self.segmenter.stop(): Segmenter.stop of the object the attribute refers
\* to now; it returns at once when that object is not running, else the
\* process is ended and _running and _process are cleared.
ManagerStopSegmenter ==
    /\ manager.spc = "stop"
    /\ manager' = [manager EXCEPT
          !.objs[manager.segmenter] =
              IF @.running THEN [running |-> FALSE, alive |-> FALSE] ELSE @,
          !.spc = "clear"]
    /\ UNCHANGED <<rows, nextId, now, lastCall, files, nextFile, events, queue,
                   worker, main, cleanup, crashes, max_retries, prefix_template,
                   exhausted, capture, transfers, ingest,
                   health, mtimes, shutdown, backoff,
                   status, segmenter>>

\* self.segmenter = None, and stop() returns.
ManagerStopClear ==
    /\ manager.spc = "clear"
    /\ manager' = [manager EXCEPT !.segmenter = 0, !.spc = "returned"]
    /\ UNCHANGED <<rows, nextId, now, lastCall, files, nextFile, events, queue,
                   worker, main, cleanup, crashes, max_retries, prefix_template,
                   exhausted, capture, transfers, ingest,
                   health, mtimes, shutdown, backoff,
                   status, segmenter>>

NextRace ==
    \/ ManagerStart
    \/ FfmpegDies
    \/ MonitorWhile
    \/ MonitorSleep
    \/ MonitorTest
    \/ MonitorIsRunning
    \/ MonitorExitCode
    \/ MonitorQuota
    \/ MonitorNewSegmenter
    \/ MonitorStartSegmenter
    \/ ManagerStopFlag
    \/ ManagerStopTest
    \/ ManagerStopSegmenter
    \/ ManagerStopClear

SpecRace == InitHealth /\ [][NextRace]_vars

\* ================================================================ claims

\* C4: an Add whose filename is already in the store raises, leaves the
\* table as it was (so exactly one row keeps that filename), and the
\* rejected segment object gets no id.
C4_DuplicateAddRejected ==
    [][ ( /\ lastCall'.flip # lastCall.flip
          /\ lastCall'.op = "add"
          /\ HasFilename(rows, lastCall'.filename) )
        => /\ lastCall'.raised
           /\ lastCall'.id = NoneInt
           /\ rows' = rows
           /\ Cardinality({ r \in rows' : r.filename = lastCall'.filename }) = 1
      ]_vars

C4_Witness ==
    /\ lastCall.op = "add"
    /\ lastCall.raised
    /\ HasFilename(rows, lastCall.filename)
    /\ Cardinality(rows) = 2

\* C5: a reset that returns turns every uploading row into a created row,
\* leaves every other row as it was, returns the number of rows it changed,
\* leaves no row uploading; made directly after a reset that returned, it
\* returns 0 and changes nothing.
C5_ResetStuckUploads ==
    [][ ( /\ lastCall'.flip # lastCall.flip
          /\ lastCall'.op = "reset"
          /\ ~lastCall'.raised )
        => /\ lastCall'.ret = Cardinality({ r \in rows : r.state = UPLOADING })
           /\ \A r \in rows' : r.state # UPLOADING
           /\ \A r \in rows :
                 IF r.state = UPLOADING
                   THEN [r EXCEPT !.state = CREATED] \in rows'
                   ELSE r \in rows'
           /\ Cardinality(rows') = Cardinality(rows)
           /\ (lastCall.op = "reset" /\ ~lastCall.raised)
                 => (lastCall'.ret = 0 /\ rows' = rows)
      ]_vars

C5_Witness ==
    /\ lastCall.op = "reset"
    /\ ~lastCall.raised
    /\ lastCall.after_reset
    /\ lastCall.ret = 0
    /\ \E r \in rows : r.state = CREATED /\ r.upload_attempts > 0
    /\ \E r \in rows : r.state = UPLOADED

\* C1 (as stated): a row is UPLOADED exactly when its uploaded_at and its
\* s3_key are both set.
C1_Original ==
    \A r \in rows :
      (r.state = UPLOADED) <=> (r.uploaded_at # NoneInt /\ r.s3_key # NoKey)

C3_Original ==
    \A r \in rows :
      /\ r.upload_attempts <= max_retries
      /\ r.state = FAILED => r.upload_attempts = max_retries

C10_Original ==
    [][ \A r \in rows, q \in rows' :
          (r.id = q.id /\ r.state # q.state) =>
            \/ <<r.state, q.state>> \in
                 {<<CREATED, UPLOADING>>, <<UPLOADING, UPLOADED>>,
                  <<UPLOADING, FAILED>>, <<UPLOADED, CLEANED>>}
            \/ /\ <<r.state, q.state>> = <<UPLOADING, CREATED>>
               /\ main.phase = "reset" ]_vars

C6_RestartQuota ==
    [][ /\ capture'.restarts <= capture'.max_restarts
        /\ (capture'.deaths = capture'.polls /\ capture'.monitor # "none") =>
             \/ capture'.restarts = capture'.polls
             \/ /\ capture'.restarts = capture'.max_restarts
                /\ capture'.polls = capture'.max_restarts + 1
                /\ capture'.quota_stop
        /\ (capture'.quota_stop /\ ~capture.quota_stop) =>
             /\ ~capture.alive
             /\ capture.restarts = capture.max_restarts
             /\ capture'.restarts = capture.restarts
        /\ capture.quota_stop =>
             /\ capture'.quota_stop
             /\ capture'.restarts = capture.restarts
             /\ capture'.clock = capture.clock
        /\ capture'.quota_stop =>
             /\ ~capture'.alive
             /\ ~capture'.should_run
             /\ capture'.monitor = "exited" ]_vars

\* The quota of 2 was used up in one window by a process found dead at every
\* poll, and the third death ended the monitor.
C6_Witness ==
    /\ capture.quota_stop
    /\ capture.max_restarts = MaxRestarts
    /\ capture.restarts = MaxRestarts
    /\ capture.polls = MaxRestarts + 1
    /\ capture.deaths = capture.polls
    /\ capture.clock - capture.window_start <= capture.restart_window

\* C11: a row that is FAILED is, after every step of the pipeline (a process
\* restart included), still in the store with every field as it was; it is
\* neither in the upload queue nor in the hands of the worker; and it is
\* returned by the queries by state, by id and by filename.
C11_FailedIsTerminal ==
    [][ \A r \in rows :
          r.state = FAILED =>
            /\ r \in rows'
            /\ \A i \in 1..Len(queue') : queue'[i].filename # r.filename
            /\ worker'.segment.filename # r.filename
            /\ \E i \in 1..Len(get_segments_by_state(rows', FAILED, DefaultLimit)) :
                 get_segments_by_state(rows', FAILED, DefaultLimit)[i] = r
            /\ get_segment_by_id(rows', r.id) = {r}
            /\ get_segment_by_filename(rows', r.filename) = {r} ]_vars

\* A FAILED segment after a restart of the process, with the pipeline
\* running again and another segment uploaded since.
C11_Witness ==
    /\ crashes = 1
    /\ main.phase = "running"
    /\ \E r \in rows : r.state = FAILED /\ r.upload_attempts > 0
    /\ \E r \in rows : r.state = UPLOADED
    /\ worker.pc = "idle"

\* C12: every step that rewrites a stored row is the write of exactly one
\* component, made from a copy that no other component has written since it
\* was read: the startup reset (no thread running yet), the upload worker on
\* the segment it holds (stored as CREATED or UPLOADING, equal to the
\* worker's copy in every field the worker does not set, and not in the
\* retention loop's list), or the retention loop on the entry of its list
\* it is at (stored as UPLOADED, equal to the copy it read, and not the
\* segment the worker holds); and a new row is held by nobody yet.
C12_SingleWriter ==
    [][ /\ \A r \in rows, q \in rows' :
             (r.id = q.id /\ r # q) =>
               \/ /\ main.phase = "reset"
                  /\ worker = WorkerIdle
                  /\ cleanup = CleanupIdle
               \/ /\ Running
                  /\ worker.pc \in {"loop", "transfer", "failing"}
                  /\ worker.segment.id = r.id
                  /\ r.state \in {CREATED, UPLOADING}
                  /\ r.filename = worker.segment.filename
                  /\ r.created_at = worker.segment.created_at
                  /\ r.file_size = worker.segment.file_size
                  /\ r.upload_attempts <= worker.segment.upload_attempts
                  /\ \A i \in 1..Len(cleanup.list) :
                       i >= cleanup.idx => cleanup.list[i].id # r.id
                  /\ cleanup' = cleanup
               \/ /\ Running
                  /\ cleanup.pc \in {"normal", "emergency"}
                  /\ cleanup.idx <= Len(cleanup.list)
                  /\ cleanup.list[cleanup.idx] = r
                  /\ r.state = UPLOADED
                  /\ worker.segment.id # r.id
                  /\ worker' = worker
        /\ \A q \in rows' :
             (\A r \in rows : r.id # q.id) =>
               /\ worker.segment.id # q.id
               /\ \A i \in 1..Len(cleanup.list) : cleanup.list[i].id # q.id ]_vars

\* The retention loop is about to rewrite an UPLOADED row while the worker
\* holds another segment whose stored row is UPLOADING.
C12_Witness ==
    /\ cleanup.pc = "normal"
    /\ cleanup.idx <= Len(cleanup.list)
    /\ cleanup.list[cleanup.idx] \in rows
    /\ worker.pc = "transfer"
    /\ \E r \in rows : r.id = worker.segment.id /\ r.state = UPLOADING

\* C13: with the startup scan and the observer thread handling paths at the
\* same time, store errors included, there is never more than one row per
\* filename and never more than one callback per filename; the callback has
\* been made for a filename exactly when its row is there and the call that
\* inserted it has passed its callback, and it was made with that row; and
\* once any call for a filename has returned without an exception, the row
\* of that filename is there.
C13_RegisteredOnce ==
    \A f \in Filenames :
      LET stored == { r \in rows : r.filename = f }
          calls  == { i \in 1..Len(queue) : queue[i].filename = f }
          adding == { t \in {"scan", "observer"} :
                        ingest[t].pc = "callback" /\ ingest[t].filename = f }
      IN /\ Cardinality(stored) <= 1
         /\ Cardinality(calls) <= 1
         /\ Cardinality(adding) <= 1
         /\ (calls # {}) <=> (stored # {} /\ adding = {})
         /\ \A i \in calls : queue[i] \in stored
         /\ \A t \in adding : ingest[t].segment \in stored
         /\ f \in ingest.handled => stored # {}

\* The scan has inserted the row of a file and is about to make the
\* callback, while the observer, which looked the same file up before the
\* row was there, is about to insert it too.
C13_Witness ==
    /\ ingest.scan.pc = "callback"
    /\ ingest.observer.pc = "add"
    /\ ingest.observer.filename = ingest.scan.filename
    /\ \E r \in rows : r.filename = ingest.scan.filename

\* C14: while start() has not made the reset yet, no thread exists: worker
\* and retention loop are idle, queue and events are empty, and the only
\* step possible leaves them so and changes the store by the reset alone
\* (or not at all, when the reset raises and the process ends); start()
\* goes on only with no UPLOADING row left.  Once past the reset, the
\* process makes no reset again: no step turns an UPLOADING row into
\* CREATED, and the position before the reset is reached again only by a
\* restart of the process.
C14_ResetOnceFirst ==
    [][ /\ main.phase = "reset" =>
             /\ worker = WorkerIdle /\ worker' = worker
             /\ cleanup = CleanupIdle /\ cleanup' = cleanup
             /\ queue = <<>> /\ queue' = queue
             /\ events = <<>> /\ events' = events
             /\ ingest' = ingest
             /\ files' = files
             /\ nextId' = nextId
             /\ rows' \in {rows, ResetRows(rows)}
             /\ main'.phase \in {"reset", "down", "scan"}
             /\ main'.phase = "scan" =>
                  /\ rows' = ResetRows(rows)
                  /\ \A r \in rows' : r.state # UPLOADING
        /\ main.phase # "reset" =>
             /\ main'.phase = "reset" => crashes' = crashes + 1
             /\ \A r \in rows, q \in rows' :
                  (r.id = q.id /\ r.state = UPLOADING) => q.state # CREATED ]_vars

\* After a restart the reset has put an interrupted upload back to CREATED,
\* and the retention loop and the worker have gone to work after it.
C14_Witness ==
    /\ crashes = 1
    /\ main.phase = "running"
    /\ \E r \in rows : r.state = CREATED /\ r.upload_attempts > 0
    /\ cleanup.pc # "wait"
    /\ worker.pc # "idle"

C16_Original ==
    [][ /\ \A r \in rows, q \in rows' :
             r.id = q.id =>
               /\ q.upload_attempts >= r.upload_attempts
               /\ q.upload_attempts # r.upload_attempts =>
                    /\ q.upload_attempts = r.upload_attempts + 1
                    /\ q.state = UPLOADING
        /\ transfers' # transfers =>
             \E r \in rows :
               /\ r.id = worker.segment.id
               /\ r.state = UPLOADING
               /\ r.upload_attempts = transfers[r.filename] + 1
        /\ \A q \in rows' :
             worker'.segment.id # q.id =>
               transfers'[q.filename] = q.upload_attempts ]_vars

\* C17: in every step of a worker, upload_count goes up by the number of
\* rows the step stored as UPLOADED and error_count by the number it stored
\* as FAILED, at most one row in all (so a step that stores neither, such as
\* a failed attempt that will be retried, changes neither counter); a
\* restarted process starts both counters at 0; until the first restart
\* upload_count is the number of rows stored as UPLOADED so far and
\* error_count the number of FAILED rows; and no row counted once is counted
\* again for the other counter.
C17_CountersMatchStore ==
    [][ LET up == { q \in rows' : /\ q.state = UPLOADED
                                  /\ \A r \in rows : r.id = q.id => r.state # UPLOADED }
            fl == { q \in rows' : /\ q.state = FAILED
                                  /\ \A r \in rows : r.id = q.id => r.state # FAILED }
        IN /\ IF crashes' # crashes
                THEN /\ worker'.upload_count = 0
                     /\ worker'.error_count = 0
                     /\ up = {} /\ fl = {}
                ELSE /\ worker'.upload_count = worker.upload_count + Cardinality(up)
                     /\ worker'.error_count = worker.error_count + Cardinality(fl)
                     /\ Cardinality(up) + Cardinality(fl) <= 1
           /\ crashes' = 0 =>
                /\ worker'.upload_count =
                     Cardinality({ q \in rows' : q.state \in {UPLOADED, CLEANED} })
                /\ worker'.error_count =
                     Cardinality({ q \in rows' : q.state = FAILED })
           /\ \A r \in rows, q \in rows' :
                r.id = q.id =>
                  /\ r.state \in {UPLOADED, CLEANED} => q.state # FAILED
                  /\ r.state = FAILED => q.state # UPLOADED ]_vars

\* One segment was uploaded at its second attempt and another one failed:
\* both counters are 1.
C17_Witness ==
    /\ worker.upload_count = 1
    /\ worker.error_count = 1
    /\ worker.pc = "idle"
    /\ \E r \in rows : r.state = UPLOADED /\ r.upload_attempts = 2
    /\ \E r \in rows : r.state = FAILED

C19_Original ==
    [][ ( /\ lastCall'.flip # lastCall.flip
          /\ lastCall'.op = "update" )
        => /\ ( \/ lastCall'.id = NoneInt
                \/ get_segment_by_id(rows, lastCall'.id) = {} )
                => (lastCall'.raised /\ rows' = rows)
           /\ ~lastCall'.raised
                => /\ Cardinality(get_segment_by_id(rows, lastCall'.id)) = 1
                   /\ Cardinality(get_segment_by_id(rows', lastCall'.id)) = 1
                   /\ \A r \in rows : r.id # lastCall'.id => r \in rows'
      ]_vars

\* C20 (as stated): when the process is found dead with the quota used up,
\* restarts are only suspended: the monitor keeps running (so that, the
\* window over, it resets the counter and starts the process again), and a
\* step taken from such a state leaves it running.
C20_Original ==
    [][ capture'.quota_stop =>
          /\ capture'.should_run
          /\ capture'.monitor = "running" ]_vars

\* C21 (as stated): any max_restarts + 1 starts of a replacement process lie
\* at least one restart window apart from first to last, so that no interval
\* of the length of the window holds more than max_restarts of them.
C21_Original ==
    \A i \in 1..Len(capture.started_at) :
      i + capture.max_restarts <= Len(capture.started_at) =>
        capture.started_at[i + capture.max_restarts] - capture.started_at[i]
          >= capture.restart_window

\* C22: a step that changes anything of the health checker (a check made,
\* a status field, an issue reported) changes nothing else: not the store,
\* the upload queue, the chunk files and their times, the capture
\* supervisor, the worker, the retention loop or the watcher.
C22_HealthObservesOnly ==
    [][ health' # health =>
          /\ rows' = rows /\ nextId' = nextId
          /\ queue' = queue /\ events' = events
          /\ files' = files /\ mtimes' = mtimes /\ nextFile' = nextFile
          /\ capture' = capture
          /\ worker' = worker /\ cleanup' = cleanup /\ ingest' = ingest
          /\ main' = main ]_vars

\* The checker has found capture down, with the restart quota not used up,
\* and has reported it twice; capture is still down and the chunk file is
\* still there.
C22_Witness ==
    /\ health.checks >= 2
    /\ Len(health.issues) >= 2
    /\ ~health.capture_running
    /\ capture.has_segmenter /\ ~capture.alive
    /\ capture.restart_count < capture.max_restarts
    /\ \E f \in Filenames : files[f] > 0

\* C23 (as stated): every health check reports an issue when capture is not
\* running, and when capture is running but no chunk file has appeared for
\* more than the staleness threshold: the newest chunk is older than that,
\* or there is no chunk at all and capture has been up for longer than that.
C23_Original ==
    [][ health'.checks # health.checks =>
          LET reported == Len(health'.issues) > Len(health.issues)
              newest == NewestMtime(files, mtimes)
          IN /\ ~is_running => reported
             /\ ( /\ is_running
                  /\ IF newest = NoneInt
                       THEN capture.clock - capture.up_since > stale_threshold
                       ELSE capture.clock - newest > stale_threshold )
                  => reported ]_vars

\* C24 (as stated): once the stop event of the uploader is set, the worker
\* starts no transfer beyond the one of the segment it holds at that moment:
\* the calls of _upload_file made after the event are at most one, and none
\* when the worker held no segment.
C24_Original ==
    shutdown.requested =>
      \A f \in Filenames :
        transfers[f] - shutdown.at[f]
          <= (IF shutdown.in_flight /\ shutdown.held = f THEN 1 ELSE 0)

\* C25 (as stated): no failure of a store operation made while a segment is
\* handled ends the upload worker: its thread is never left by an exception.
\* (The retention loop has no such state: every exception of a cycle is
\* caught in _cleanup_loop.)
C25_Original == worker.pc # "dead"

\* C26: an exception caught while one file is registered stops neither the
\* startup scan nor the observer: every other file that is in the listing
\* still to be scanned, or has a created event pending, is eventually in the
\* store and in the upload queue.
C26_ErrorContained ==
    \A f \in Filenames \ {FaultyFile} :
      ( /\ files[f] > 0
        /\ \/ \E i \in 1..Len(main.scan) : main.scan[i] = f
           \/ \E i \in 1..Len(events) : events[i] = f )
      ~> ( /\ HasFilename(rows, f)
           /\ \E i \in 1..Len(queue) : queue[i].filename = f )

\* C26 witness: both threads have caught an exception for FaultyFile, which
\* has no row, and a file handled after it is stored and queued.
C26_Witness ==
    /\ FaultyFile \in ingest.raised
    /\ ~HasFilename(rows, FaultyFile)
    /\ main.phase = "running"
    /\ ingest.notified > 0
    /\ events = <<>>
    /\ \E f \in Filenames \ {FaultyFile} :
         /\ HasFilename(rows, f)
         /\ \E i \in 1..Len(queue) : queue[i].filename = f
         /\ f \in ingest.handled

\* C28: the healthy flag a status reports is true exactly when both running
\* flags are true and the disk usage is strictly below 90% of the limit; the
\* default status and a status at 95% of its limit are reported unhealthy.
C28_HealthyFlag ==
    status.reported =>
      /\ status.healthy <=>
            ( /\ status.st.capture_running
              /\ status.st.upload_running
              /\ 100 * status.st.disk_usage_mb < 90 * status.st.disk_limit_mb )
      /\ status.st = HealthStatus => ~status.healthy
      /\ 100 * status.st.disk_usage_mb = 95 * status.st.disk_limit_mb
            => ~status.healthy

\* C28 witness: a status at 95% of its limit, both flags true, was reported
\* unhealthy.
C28_Witness ==
    /\ status.reported
    /\ status.st.capture_running
    /\ status.st.upload_running
    /\ status.st.disk_usage_mb = 950
    /\ status.st.disk_limit_mb = 1000
    /\ ~status.healthy

C30_Original ==
    /\ \A k \in 1..Len(backoff.slept) :
         LET doubled == backoff.base * 2^(k - 1)
         IN backoff.slept[k] = IF doubled < MaxBackoff THEN doubled ELSE MaxBackoff
    /\ \A k \in 1..Len(backoff.slept) : backoff.slept[k] <= MaxBackoff
    /\ Len(backoff.slept) = 0 \/ Len(backoff.slept) < backoff.max_retries

\* C31 (as stated): after a transfer error the segment the worker holds
\* carries the text of that error, and a segment whose attempts all ended in
\* a transfer error is stored FAILED with the text of the last of them.
C31_Original ==
    /\ (worker.transfer_errors > 0 /\ worker.pc = "loop")
         => worker.segment.last_error = TransferErrorText
    /\ \A r \in rows :
         (r.filename \in exhausted /\ r.state = FAILED)
           => r.last_error = TransferErrorText

\* C32 (as stated): the observer thread handles no created event before the
\* startup scan has ended: every step of a call of _handle_new_segment made
\* by the observer is taken when start() has returned.
C32_Original ==
    [][ ingest'.observer # ingest.observer => main.phase = "running" ]_vars

\* C33: the worker handles one segment at a time, in the order of the queue.
\* In one run of the process: the segment it takes is the head of the queue,
\* it holds that segment until it is done with it, and when it is done the
\* row of the segment is UPLOADED or FAILED; so the first attempt for a
\* segment comes after every segment queued before it was stored UPLOADED or
\* FAILED.
C33_OneAtATimeInOrder ==
    [][ crashes' = crashes =>
          /\ (worker.pc = "idle" /\ worker'.pc # "idle") =>
                /\ queue # <<>>
                /\ worker'.segment.filename = Head(queue).filename
                /\ worker'.segment.upload_attempts = Head(queue).upload_attempts
                /\ queue' = Tail(queue)
          /\ (worker.pc # "idle" /\ worker'.pc # "idle") =>
                /\ worker'.segment.filename = worker.segment.filename
                /\ Len(queue') >= Len(queue)
          /\ (worker.pc # "idle" /\ worker'.pc = "idle") =>
                \E r \in rows' : /\ r.id = worker.segment.id
                                  /\ r.filename = worker.segment.filename
                                  /\ r.state \in {UPLOADED, FAILED}
          /\ worker.pc = "idle" => Len(queue') >= Len(queue) - 1
      ]_vars

\* C33 witness: two segments were queued in one run; the one queued first is
\* stored FAILED and the worker is transferring the second.
C33_Witness ==
    /\ crashes = 0
    /\ worker.pc = "transfer"
    /\ worker.segment.id = 2
    /\ \E r \in rows : r.id = 1 /\ r.state = FAILED /\ r.filename # worker.segment.filename
    /\ \E r \in rows : r.id = 2 /\ r.state = UPLOADING

\* C34: every call of Segmenter.stop that finds a process held ends with
\* _running false and _process None, whatever happened in between.  It sends
\* SIGINT first and waits up to the timeout; SIGKILL and the wait without
\* timeout come only when the process was still alive at the timeout; a
\* process that had exited already is neither killed nor an error; and when
\* no exception was logged the process is gone.
C34_StopClears ==
    [][ ( /\ segmenter'.starts = segmenter.starts
          /\ segmenter'.stop.called
          /\ \/ segmenter'.stop # segmenter.stop
             \/ segmenter'.running # segmenter.running )
        => LET done == segmenter'.stop
           IN /\ ~segmenter'.running
              /\ ~segmenter'.process
              /\ done.returned_early <=> ~(segmenter.running /\ segmenter.process)
              /\ done.returned_early =>
                    (done.signals = <<>> /\ segmenter'.os = segmenter.os)
              /\ done.signals # <<>> => done.signals[1] = "SIGINT"
              /\ done.waits # <<>> => done.waits[1] = "timeout"
              /\ Len(done.signals) = 2 <=> Len(done.waits) = 2
              /\ Len(done.signals) = 2 =>
                    /\ done.signals[2] = "SIGKILL"
                    /\ done.waits[2] = "unconditional"
                    /\ done.alive_at_timeout
                    /\ done.was = "running"
              /\ done.was = "exited" =>
                    /\ Len(done.signals) <= 1
                    /\ ~done.alive_at_timeout
                    /\ segmenter'.os = "exited"
              /\ (~done.returned_early /\ done.error # "logged") =>
                    segmenter'.os = "exited"
      ]_vars

\* C34 witness: a stop found the process alive after the timeout, killed it
\* and waited for it; nothing is held and the process is gone.
C34_Witness ==
    /\ segmenter.stop.called
    /\ segmenter.stop.signals = <<"SIGINT", "SIGKILL">>
    /\ segmenter.stop.waits = <<"timeout", "unconditional">>
    /\ ~segmenter.running
    /\ ~segmenter.process
    /\ segmenter.os = "exited"

C36_Original ==
    Running =>
      /\ Cardinality({ r \in rows : r.state = UPLOADING }) <= 1
      /\ \A r \in rows :
           r.state = UPLOADING =>
             /\ worker.pc \in {"loop", "transfer", "failing"}
             /\ worker.segment.id = r.id

\* C37 (as stated): a row that is CREATED when the pipeline starts (after
\* the startup reset) eventually becomes UPLOADED or FAILED, under fair
\* scheduling and terminating transfers.
C37_Original ==
    \A id \in 1..MaxIds :
      (main.phase = "scan" /\ \E r \in rows : r.id = id /\ r.state = CREATED)
        ~> (\E r \in rows : r.id = id /\ r.state \in {UPLOADED, FAILED})

\* C38 (as stated): once SegmenterManager.stop() has returned, no ffmpeg
\* process started by the supervisor is running, whatever the interleaving
\* with the monitor loop (a process the monitor starts afterwards is running
\* after the return).
C38_Original ==
    manager.spc = "returned" => \A o \in Objects : ~manager.objs[o].alive

\* C39: a CLEANED row has no file on disk; a cleanup turn leaves the row of
\* its segment UPLOADED or makes it CLEANED, and a row it leaves UPLOADED
\* (the unlink or the update failed) is unchanged and is listed again by
\* get_uploaded_segments once it is older than the buffer time.
C39_CleanedHasNoFile ==
    [][ /\ \A r \in rows' : r.state = CLEANED => files'[r.filename] = 0
        /\ (/\ cleanup.pc \in {"normal", "emergency"}
            /\ cleanup.idx <= Len(cleanup.list)
            /\ cleanup'.pc \in {"normal", "emcheck"}
            /\ cleanup' # cleanup)
             => LET seg == cleanup.list[cleanup.idx]
                IN \A r \in rows' :
                     r.id = seg.id =>
                       /\ r.state \in {UPLOADED, CLEANED}
                       /\ r.state = UPLOADED =>
                            /\ r \in rows
                            /\ \E i \in 1..Len(get_uploaded_segments(rows',
                                     r.uploaded_at + local_buffer_minutes + 1,
                                     local_buffer_minutes)) :
                                 get_uploaded_segments(rows',
                                     r.uploaded_at + local_buffer_minutes + 1,
                                     local_buffer_minutes)[i] = r
      ]_vars

\* A cleanup cycle in which the first segment's turn failed on the unlink
\* (its row is UPLOADED and its file is still there after the turn) while
\* another segment has been cleaned.
C39_Witness ==
    /\ cleanup.pc = "normal"
    /\ cleanup.idx > 1
    /\ \E r \in rows : /\ r.id = cleanup.list[1].id
                        /\ r.state = UPLOADED
                        /\ files[r.filename] > 0
    /\ \E r \in rows : r.state = CLEANED /\ files[r.filename] = 0

\* C40 (as stated): when an attempt has raised an error that is not a
\* transfer error, the worker's next step stores the segment FAILED with
\* that error's text, counts one error, makes no further transfer and takes
\* no backoff sleep, and the worker is free for the next queued segment.
C40_Original ==
    [][ (/\ worker.pc = "failing"
         /\ worker.error \in {DatabaseErrorText, OtherErrorText}
         /\ worker' # worker
         /\ crashes' = crashes)
          => /\ worker'.pc = "idle"
             /\ worker'.error_count = worker.error_count + 1
             /\ worker'.delay = worker.delay
             /\ transfers' = transfers
             /\ \E r \in rows' :
                  /\ r.id = worker.segment.id
                  /\ r.state = FAILED
                  /\ r.last_error = worker.error
                  /\ r.upload_attempts = worker.segment.upload_attempts
      ]_vars

====
